---- MODULE Spec2Model ----
(***************************************************************************)
(* Token security and session lifecycle of google-workspace-remote-mcp:    *)
(* TokenStorage / TokenManager (src/auth), key rotation                    *)
(* (src/utils/encryption.ts), CSRF state tokens (src/auth/state.ts) and    *)
(* bearer-token validation (src/utils/validation.ts, validateJWT).         *)
(*                                                                         *)
(* Every async function is split at its awaits: one action per await that  *)
(* touches the shared KV store or an external service.  The KV store is    *)
(* modelled as strongly consistent, one operation per step.                *)
(***************************************************************************)
EXTENDS Integers, Sequences, FiniteSets, TLC

\* ------------------------------------------------------------------ bounds
MaxNow == 2
MaxCalls == 3
MaxAllow == 102

\* ------------------------------------------------------- program constants
CURRENT_VERSION == 2
MsPerSecond == 1000

Workers == {"w1", "w2"}
OneWorker == {"w1"}
Identities == {"u1"}

\* ------------------------------------------------------------ CryptoEngine
KeyNew == "kNew"
KeyOld == "kOld"
NoKey == "noKey"
Ivs == {1, 2}

NoEntry == [tag |-> "none"]
\* a stored string that is not the JSON of an EncryptedData
RawEntry == [tag |-> "raw"]

NoTokens == [tag |-> "null"]

\* JSON.stringify(tokens): the plaintext handed to encrypt
JsonStringify(t) == [tag |-> "json", val |-> t]
\* a plaintext that is no JSON text
TextPlain == [tag |-> "text"]
NoPlain == [tag |-> "noplain"]

\* JSON.parse(decrypted): the value, or a SyntaxError
JsonParse(p) ==
  IF p.tag = "json" THEN [ok |-> TRUE, val |-> p.val]
  ELSE [ok |-> FALSE, val |-> NoTokens]

\* the empty string
EmptyPlain == [tag |-> "empty"]
\* a string holding an unpaired surrogate, and the same string with U+FFFD in
\* its place
IllFormedPlain == [tag |-> "illformed"]
ReplacedPlain == [tag |-> "replaced"]

\* new TextEncoder().encode(data): UTF-8 of the string, an unpaired surrogate
\* encoded as U+FFFD (the bytes are named by the string they decode to)
TextEncode(data) == IF data = IllFormedPlain THEN ReplacedPlain ELSE data
\* new TextDecoder().decode(bytes) of bytes that are UTF-8
TextDecode(bytes) == bytes

encryptWithKey(data, key, iv) ==
  [tag |-> "enc", version |-> CURRENT_VERSION, key |-> key,
   plain |-> TextEncode(data), iv |-> iv, intact |-> TRUE]

decryptWithKey_Unauthenticated(enc, key) ==
  IF enc.key = key
  THEN [ok |-> TRUE, plain |-> TextDecode(enc.plain)]
  ELSE [ok |-> FALSE, plain |-> NoPlain]

\* AES-GCM: the plaintext comes back only under the encrypting key and with
\* ciphertext, iv and tag untouched; otherwise subtle.decrypt rejects
decryptWithKey(enc, key) ==
  IF enc.key = key /\ enc.intact
  THEN [ok |-> TRUE, plain |-> TextDecode(enc.plain)]
  ELSE [ok |-> FALSE, plain |-> NoPlain]

encrypt(data, curKey, iv) == encryptWithKey(data, curKey, iv)

decryptKeys_NoFallback(blob, curKey, oldKey) ==
  IF blob.tag = "enc" /\ decryptWithKey(blob, curKey).ok
  THEN [status |-> "ok", plain |-> decryptWithKey(blob, curKey).plain]
  ELSE [status |-> "fail", plain |-> NoPlain]

\* decrypt up to the point where it either returns, throws, or is about to
\* call reEncryptToken: status "ok" (current key), "old" (previous key, the
\* re-encryption follows when a tokenKey was given), "fail" (throws)
decryptKeys(blob, curKey, oldKey) ==
  IF blob.tag # "enc" THEN [status |-> "fail", plain |-> NoPlain]
  ELSE IF decryptWithKey(blob, curKey).ok
       THEN [status |-> "ok", plain |-> decryptWithKey(blob, curKey).plain]
  ELSE IF oldKey # NoKey
       THEN IF decryptWithKey(blob, oldKey).ok
            THEN [status |-> "old", plain |-> decryptWithKey(blob, oldKey).plain]
            ELSE [status |-> "fail", plain |-> NoPlain]
  ELSE [status |-> "fail", plain |-> NoPlain]

\* the error a failing decrypt rejects with
NoError == "none"
FailedWithAnyKey == "Error: Failed to decrypt with any available key"
SyntaxError == "SyntaxError"
OperationError == "OperationError"

\* JSON.parse throws before any key is tried; with a previous key configured
\* the rejection of decryptWithKey under that key leaves decrypt as it is;
\* only without a previous key does decrypt throw its own error
decryptError(blob, curKey, oldKey) ==
  IF blob.tag # "enc" THEN SyntaxError
  ELSE IF decryptWithKey(blob, curKey).ok THEN NoError
  ELSE IF oldKey # NoKey
       THEN IF decryptWithKey(blob, oldKey).ok THEN NoError ELSE OperationError
  ELSE FailedWithAnyKey

\* ------------------------------------------------------------ bearer tokens
NoBearer == [tag |-> "none"]

\* ------------------------------------------------------- CSRF state tokens
STATE_TTL == 300
STATE_LIMIT == 10
\* state tokens are the values of crypto.randomUUID(), numbered in the order
\* they are drawn; 0 stands for a null or empty state parameter
StateTokens == 1..MaxCalls
NullState == 0
UnknownState == MaxCalls + 1
NotIssued == [owner |-> "none", at |-> 0, consumed |-> FALSE]
ClientIps == {"ip1"}
RateKey(clientIp) == <<"state", clientIp>>

\* ------------------------------------------------------------- RateLimiter
WINDOW_SIZE == 60
MAX_REQUESTS == 100
\* the two RateLimiter implementations: the timestamp list of rate-limit.ts
\* and the counter; each instance is constructed over its own namespace
Limiters == {"list", "count"}
LimitKey(impl, userId) == <<"rate", userId, impl>>
RateKeys ==
  {RateKey(ip) : ip \in ClientIps} \cup
  {LimitKey(impl, u) : impl \in Limiters, u \in Identities}

\* ------------------------------------------------------------ TokenStorage
TokenKey(userId) == <<"tokens", userId>>
TokenKeys == {TokenKey(u) : u \in Identities}

Tokens(at, rt, exp) ==
  [tag |-> "tokens", access_token |-> at, refresh_token |-> rt,
   expires_at |-> exp, token_type |-> "Bearer", scope |-> "mail"]

\* the times at which requests arrive when they come three quarters of a
\* window apart, and the history of an identity that has made no request
SpanStep == (3 * WINDOW_SIZE * MsPerSecond) \div 4
RlTimes == {i * SpanStep : i \in 0..MaxNow}
NoneMade == [t \in RlTimes |-> 0]

\* the identities credentials are stored for, and what is known of an
\* identity that storeTokens and deleteTokens were never called for
Owners == {"u1", "u2"}
NoneStored == [u \in Owners |-> [tag |-> "never"]]

VARIABLES
  kv,       \* OAUTH_TOKENS namespace: key -> stored string
  now,      \* Date.now(), milliseconds
  pc,       \* per worker: the await it is suspended at
  loc,      \* per worker: the locals of the running call
  res,      \* per worker: the outcome of its last finished call
  hist,     \* per worker: what the running call has observed and done
  calls,    \* number of calls made so far
  oauthState,  \* OAUTH_STATE namespace: state token -> owner, with expiry
  rateLimits,  \* RATE_LIMITS namespace: key -> counter, with expiry
  nextUuid,    \* the next value crypto.randomUUID() hands out
  meta,     \* TOKEN_STORE metadata: key -> metadata.version of the entry
  lock,     \* ROTATION_LOCK: key -> holder of the rotation lock
  bearer,   \* the Authorization header presented, and the validation options
  issued,   \* history: state token -> owner, time of issue, consumed or not
  made,     \* history: time -> number of checkLimit calls recorded at that time
  stored    \* history: identity -> what storeTokens / deleteTokens last did

vars == <<kv, now, pc, loc, res, hist, calls, oauthState, rateLimits, nextUuid,
          meta, lock, bearer, issued, made, stored>>
\* what the TokenManager, the CSRF and the rotation operations leave alone
notTok == <<oauthState, rateLimits, nextUuid, meta, lock, bearer, issued, made,
           stored>>
notCsrf == <<kv, hist, meta, lock, bearer, made, stored>>
notRot == <<now, oauthState, rateLimits, nextUuid, bearer, issued, made, stored>>
notRl == <<kv, oauthState, nextUuid, meta, lock, bearer, issued, stored>>
notJwt == <<kv, loc, hist, oauthState, rateLimits, nextUuid, meta, lock, issued,
           made, stored>>

\* TokenStorage.getTokens as written: null when no entry, and null as well
\* when decrypt or JSON.parse throws (the catch block)
getTokens(blob, key) ==
  IF blob.tag = "none" THEN [kind |-> "null", val |-> NoTokens]
  ELSE LET d == decryptKeys(blob, key, NoKey) IN
       IF d.status = "fail" THEN [kind |-> "null", val |-> NoTokens]
       ELSE IF JsonParse(d.plain).ok
            THEN [kind |-> "tokens", val |-> JsonParse(d.plain).val]
            ELSE [kind |-> "null", val |-> NoTokens]

\* what the provider's token endpoint answers to a refresh
AccessTokens == {"a1"}
ExpiresIn == {1, 2}
TokenResponse(at, ein, rt) ==
  [tag |-> "resp", access_token |-> at, expires_in |-> ein, refresh_token |-> rt]
NoResponse == [tag |-> "noresp"]

NoLoc == [uid |-> "none", tokens |-> NoTokens, now |-> 0,
          newTokens |-> NoResponse, updated |-> NoTokens]
NoHist == [put |-> "none", notify |-> "none", refreshArg |-> "none",
           seen |-> "none", entry |-> NoEntry, retry |-> FALSE,
           attempts |-> 0]
NoRes == [op |-> "none", uid |-> "none", kind |-> "none", val |-> NoTokens]

\* -------------------------------------------------------------- TokenManager
\* updatedTokens of getValidTokens: { ...tokens, access_token, expires_at }
updatedTokens(tokens, newTokens, t) ==
  [tokens EXCEPT !.access_token = newTokens.access_token,
                 !.expires_at = t + newTokens.expires_in * MsPerSecond]

\* handleOAuthCallback: the authorization exchange stores a fresh credential
storeTokens(store, userId, tokens, iv) ==
  [store EXCEPT ![TokenKey(userId)] = encrypt(JsonStringify(tokens), KeyNew, iv)]

\* variant of deleteTokens: the delete empties the namespace
deleteTokens_AllKeys(store, userId) == [k \in DOMAIN store |-> NoEntry]

deleteTokens(store, userId) == [store EXCEPT ![TokenKey(userId)] = NoEntry]

\* what TokenStorage.getTokens would now return for identity u
StoredTokens(store, u) == getTokens(store[TokenKey(u)], KeyNew).val

AuthStore(u, rt, ein, iv) ==
  /\ calls < MaxCalls
  /\ calls' = calls + 1
  /\ kv' = storeTokens(kv, u, Tokens("a0", rt, now + ein * MsPerSecond), iv)
  /\ UNCHANGED <<now, pc, loc, res, hist>>
  /\ UNCHANGED notTok

Finish(w, r) ==
  /\ pc' = [pc EXCEPT ![w] = "idle"]
  /\ res' = [res EXCEPT ![w] = r]
  /\ loc' = [loc EXCEPT ![w] = NoLoc]

Begin(w) ==
  /\ pc[w] = "idle"
  /\ calls < MaxCalls
  /\ calls' = calls + 1

\* the entry the call reads, and whether the call follows a failed refresh of
\* this very entry (history only)
FailedRefreshOf(w, u) ==
  /\ pc[w] = "idle"
  /\ res[w] = [op |-> "gvt", uid |-> u, kind |-> "RefreshFailed", val |-> NoTokens]
  /\ hist[w].put = "none"
  /\ hist[w].entry = kv[TokenKey(u)]

Observed(u) == [NoHist EXCEPT !.seen = kv[TokenKey(u)].tag]

Result(op, u, kind, val) == [op |-> op, uid |-> u, kind |-> kind, val |-> val]

\* a direct TokenStorage.getTokens call
GetTokensCall(w, u) ==
  /\ Begin(w)
  /\ LET g == getTokens(kv[TokenKey(u)], KeyNew) IN
       Finish(w, Result("get", u, g.kind, g.val))
  /\ hist' = [hist EXCEPT ![w] = Observed(u)]
  /\ UNCHANGED <<kv, now>>
  /\ UNCHANGED notTok

\* getValidTokens from its call to the await of oauth.refreshAccessToken
IsExpired_Strict(tokens, t) == tokens.expires_at < t
\* tokens.expires_at <= now
IsExpired(tokens, t) == tokens.expires_at <= t

NoRefreshToken_Never(tokens) == FALSE
\* !tokens.refresh_token
NoRefreshToken(tokens) == tokens.refresh_token = "none"

GvtGet(w, u) ==
  /\ Begin(w)
  /\ LET g == getTokens(kv[TokenKey(u)], KeyNew) IN
       IF g.kind = "null"
       THEN /\ Finish(w, Result("gvt", u, "NotFound", NoTokens))
            /\ hist' = [hist EXCEPT ![w] = Observed(u)]
       ELSE IF IsExpired(g.val, now)
       THEN IF NoRefreshToken(g.val)
            THEN /\ Finish(w, Result("gvt", u, "Unrefreshable", NoTokens))
                 /\ hist' = [hist EXCEPT ![w] = Observed(u)]
            ELSE /\ pc' = [pc EXCEPT ![w] = "refresh"]
                 /\ hist' = [hist EXCEPT ![w] =
                               [Observed(u) EXCEPT
                                  !.entry = kv[TokenKey(u)],
                                  !.retry = \E v \in Workers : FailedRefreshOf(v, u)]]
                 /\ res' = [res EXCEPT ![w] = NoRes]
                 /\ loc' = [loc EXCEPT ![w] =
                              [NoLoc EXCEPT !.uid = u, !.tokens = g.val, !.now = now]]
       ELSE /\ Finish(w, Result("gvt", u, "ok", g.val))
            /\ hist' = [hist EXCEPT ![w] = Observed(u)]
  /\ UNCHANGED <<kv, now>>
  /\ UNCHANGED notTok

\* oauth.refreshAccessToken(tokens.refresh_token) resolves
GvtRefreshOk(w, at, ein, rt) ==
  /\ pc[w] = "refresh"
  /\ pc' = [pc EXCEPT ![w] = "store"]
  /\ loc' = [loc EXCEPT ![w].newTokens = TokenResponse(at, ein, rt),
                        ![w].updated =
                          updatedTokens(loc[w].tokens, TokenResponse(at, ein, rt), loc[w].now)]
  /\ hist' = [hist EXCEPT ![w].refreshArg = loc[w].tokens.refresh_token]
  /\ UNCHANGED <<kv, now, res, calls>>
  /\ UNCHANGED notTok

\* variant of GvtRefreshFail: the failure path also drops the stored record
GvtRefreshFail_DropsRecord(w) ==
  /\ pc[w] = "refresh"
  /\ kv' = deleteTokens(kv, loc[w].uid)
  /\ Finish(w, Result("gvt", loc[w].uid, "RefreshFailed", NoTokens))
  /\ hist' = [hist EXCEPT ![w].refreshArg = loc[w].tokens.refresh_token]
  /\ UNCHANGED <<now, calls>>
  /\ UNCHANGED notTok

\* oauth.refreshAccessToken rejects: the catch block throws
\* "Failed to refresh access token"
GvtRefreshFail(w) ==
  /\ pc[w] = "refresh"
  /\ Finish(w, Result("gvt", loc[w].uid, "RefreshFailed", NoTokens))
  /\ hist' = [hist EXCEPT ![w].refreshArg = loc[w].tokens.refresh_token]
  /\ UNCHANGED <<kv, now, calls>>
  /\ UNCHANGED notTok

\* storage.storeTokens resolves, then return updatedTokens
GvtStoreOk(w, iv) ==
  /\ pc[w] = "store"
  /\ kv' = storeTokens(kv, loc[w].uid, loc[w].updated, iv)
  /\ hist' = [hist EXCEPT ![w].put = "ok", ![w].entry = NoEntry]
  /\ Finish(w, Result("gvt", loc[w].uid, "ok", loc[w].updated))
  /\ UNCHANGED <<now, calls>>
  /\ UNCHANGED notTok

\* variant of GvtStoreFail: the rejected put is swallowed and the refreshed
\* credential handed back
GvtStoreFail_Swallowed(w) ==
  /\ pc[w] = "store"
  /\ hist' = [hist EXCEPT ![w].put = "failed", ![w].entry = NoEntry]
  /\ Finish(w, Result("gvt", loc[w].uid, "ok", loc[w].updated))
  /\ UNCHANGED <<kv, now, calls>>
  /\ UNCHANGED notTok

\* storage.storeTokens rejects (the KV put fails): the same catch block
GvtStoreFail(w) ==
  /\ pc[w] = "store"
  /\ hist' = [hist EXCEPT ![w].put = "failed", ![w].entry = NoEntry]
  /\ Finish(w, Result("gvt", loc[w].uid, "RefreshFailed", NoTokens))
  /\ UNCHANGED <<kv, now, calls>>
  /\ UNCHANGED notTok

\* revokeTokens from its call to the await of fetch(revoke) or of deleteTokens
RevGet(w, u) ==
  /\ Begin(w)
  /\ hist' = [hist EXCEPT ![w] = Observed(u)]
  /\ LET g == getTokens(kv[TokenKey(u)], KeyNew) IN
       IF g.kind = "null"
       THEN Finish(w, Result("revoke", u, "void", NoTokens))
       ELSE /\ pc' = [pc EXCEPT ![w] =
                       IF g.val.refresh_token # "none" THEN "notify" ELSE "delete"]
            /\ res' = [res EXCEPT ![w] = NoRes]
            /\ loc' = [loc EXCEPT ![w] =
                         [NoLoc EXCEPT !.uid = u, !.tokens = g.val, !.now = now]]
  /\ UNCHANGED <<kv, now>>
  /\ UNCHANGED notTok

\* fetch(https://oauth2.googleapis.com/revoke) resolves (whatever the status)
RevNotifyOk(w) ==
  /\ pc[w] = "notify"
  /\ pc' = [pc EXCEPT ![w] = "delete"]
  /\ hist' = [hist EXCEPT ![w].notify = "ok"]
  /\ UNCHANGED <<kv, now, loc, res, calls>>
  /\ UNCHANGED notTok

\* variant of RevNotifyFail: no finally block, the error propagates at once
RevNotifyFail_NoFinally(w) ==
  /\ pc[w] = "notify"
  /\ hist' = [hist EXCEPT ![w].notify = "failed"]
  /\ Finish(w, Result("revoke", loc[w].uid, "throw", NoTokens))
  /\ UNCHANGED <<kv, now, calls>>
  /\ UNCHANGED notTok

\* fetch rejects: the finally block runs before the error propagates
RevNotifyFail(w) ==
  /\ pc[w] = "notify"
  /\ pc' = [pc EXCEPT ![w] = "delete"]
  /\ hist' = [hist EXCEPT ![w].notify = "failed"]
  /\ UNCHANGED <<kv, now, loc, res, calls>>
  /\ UNCHANGED notTok

\* finally { await this.storage.deleteTokens(userId) }
RevDelete(w) ==
  /\ pc[w] = "delete"
  /\ kv' = deleteTokens(kv, loc[w].uid)
  /\ Finish(w, Result("revoke", loc[w].uid,
                      IF hist[w].notify = "failed" THEN "throw" ELSE "void", NoTokens))
  /\ UNCHANGED <<now, hist, calls>>
  /\ UNCHANGED notTok

Tick ==
  /\ now < MaxNow * MsPerSecond
  /\ now' = now + MsPerSecond
  /\ UNCHANGED <<kv, pc, loc, res, hist, calls>>
  /\ UNCHANGED notTok

\* records left in the store by an earlier deployment: written under the
\* previous key before the key was rotated, or not an EncryptedData at all
OldRecord == encryptWithKey(JsonStringify(Tokens("a0", "r1", 0)), KeyOld, 1)

InitTok ==
  /\ kv \in [TokenKeys -> {NoEntry, RawEntry, OldRecord}]
  /\ now = 0
  /\ pc = [w \in Workers |-> "idle"]
  /\ loc = [w \in Workers |-> NoLoc]
  /\ res = [w \in Workers |-> NoRes]
  /\ hist = [w \in Workers |-> NoHist]
  /\ calls = 0
  /\ oauthState = [t \in StateTokens |-> NoEntry]
  /\ rateLimits = [k \in RateKeys |-> NoEntry]
  /\ nextUuid = 1
  /\ issued = [t \in StateTokens |-> NotIssued]
  /\ meta = [k \in TokenKeys |-> 0]
  /\ lock = [k \in TokenKeys |-> "free"]
  /\ bearer = NoBearer
  /\ made = NoneMade
  /\ stored = NoneStored

NextTok ==
  \/ \E u \in Identities, rt \in {"r1", "none"}, ein \in ExpiresIn, iv \in Ivs :
       AuthStore(u, rt, ein, iv)
  \/ \E w \in Workers, u \in Identities : GetTokensCall(w, u)
  \/ \E w \in Workers, u \in Identities : GvtGet(w, u)
  \/ \E w \in Workers, at \in AccessTokens, ein \in ExpiresIn, rt \in {"none", "r2"} :
       GvtRefreshOk(w, at, ein, rt)
  \/ \E w \in Workers : GvtRefreshFail(w)
  \/ \E w \in Workers, iv \in Ivs : GvtStoreOk(w, iv)
  \/ \E w \in Workers : GvtStoreFail(w)
  \/ \E w \in Workers, u \in Identities : RevGet(w, u)
  \/ \E w \in Workers : RevNotifyOk(w)
  \/ \E w \in Workers : RevNotifyFail(w)
  \/ \E w \in Workers : RevDelete(w)
  \/ Tick

SpecTok == InitTok /\ [][NextTok]_vars

\* -------------------------------------------------- createState / consumeState
StateEntry(userId, expiresAt) ==
  [tag |-> "state", userId |-> userId, expiresAt |-> expiresAt]
CountEntry(count, expiresAt) ==
  [tag |-> "count", count |-> count, expiresAt |-> expiresAt]

KvGet_NoExpiry(store, key, t) == store[key]
\* KVNamespace.get: an entry whose expirationTtl has run out reads as null
KvGet(store, key, t) ==
  IF store[key].tag # "none" /\ t < store[key].expiresAt THEN store[key] ELSE NoEntry

\* parseInt(stateCount || "0")
ParseCount(entry) == IF entry.tag = "count" THEN entry.count ELSE 0

\* no createState or consumeState call of the worker has returned yet
NoCsrfRes == Result("none", "none", "none", NullState)

CsrfLoc(userId, clientIp, newCount, state) ==
  [userId |-> userId, clientIp |-> clientIp, newCount |-> newCount, state |-> state]

CreateRead_CountsDenied(w, userId, clientIp) ==
  /\ Begin(w)
  /\ LET stateCount == KvGet(rateLimits, RateKey(clientIp), now) IN
       IF stateCount.tag = "count" /\ ParseCount(stateCount) > STATE_LIMIT
       THEN /\ Finish(w, Result("create", userId, "null", NullState))
            /\ rateLimits' = [rateLimits EXCEPT ![RateKey(clientIp)] =
                                CountEntry(ParseCount(stateCount) + 1,
                                           now + STATE_TTL * MsPerSecond)]
       ELSE /\ pc' = [pc EXCEPT ![w] = "putCount"]
            /\ res' = [res EXCEPT ![w] = NoCsrfRes]
            /\ loc' = [loc EXCEPT ![w] =
                         CsrfLoc(userId, clientIp, ParseCount(stateCount) + 1, NullState)]
            /\ UNCHANGED rateLimits
  /\ UNCHANGED <<now, oauthState, nextUuid, issued>>
  /\ UNCHANGED notCsrf

\* createState up to the await of RATE_LIMITS.put
CreateRead(w, userId, clientIp) ==
  /\ Begin(w)
  /\ LET stateCount == KvGet(rateLimits, RateKey(clientIp), now) IN
       IF stateCount.tag = "count" /\ ParseCount(stateCount) > STATE_LIMIT
       THEN Finish(w, Result("create", userId, "null", NullState))
       ELSE /\ pc' = [pc EXCEPT ![w] = "putCount"]
            /\ res' = [res EXCEPT ![w] = NoCsrfRes]
            /\ loc' = [loc EXCEPT ![w] =
                         CsrfLoc(userId, clientIp, ParseCount(stateCount) + 1, NullState)]
  /\ UNCHANGED <<now, oauthState, rateLimits, nextUuid, issued>>
  /\ UNCHANGED notCsrf

\* RATE_LIMITS.put(rateLimitKey, newCount, { expirationTtl: 300 })
CreatePutCount(w) ==
  /\ pc[w] = "putCount"
  /\ rateLimits' = [rateLimits EXCEPT ![RateKey(loc[w].clientIp)] =
                      CountEntry(loc[w].newCount, now + STATE_TTL * MsPerSecond)]
  /\ pc' = [pc EXCEPT ![w] = "putState"]
  /\ UNCHANGED <<now, loc, res, calls, oauthState, nextUuid, issued>>
  /\ UNCHANGED notCsrf

\* state = crypto.randomUUID(); OAUTH_STATE.put(state, userId, ttl 300)
CreatePutState(w) ==
  /\ pc[w] = "putState"
  /\ nextUuid \in StateTokens
  /\ oauthState' = [oauthState EXCEPT ![nextUuid] =
                      StateEntry(loc[w].userId, now + STATE_TTL * MsPerSecond)]
  /\ nextUuid' = nextUuid + 1
  /\ issued' = [issued EXCEPT ![nextUuid] =
                  [owner |-> loc[w].userId, at |-> now, consumed |-> FALSE]]
  /\ Finish(w, Result("create", loc[w].userId, "state", nextUuid))
  /\ UNCHANGED <<now, calls, rateLimits>>
  /\ UNCHANGED notCsrf

\* what OAUTH_STATE.get(state) resolves to
StateGet(store, state, t) ==
  IF state \in StateTokens THEN KvGet(store, state, t) ELSE NoEntry

\* consumeState up to the await of OAUTH_STATE.delete; a null or empty state
\* returns null without reading the store
ConsumeGet(w, state) ==
  /\ Begin(w)
  /\ IF state = NullState
     THEN /\ Finish(w, Result("consume", "none", "null", state))
          /\ hist' = [hist EXCEPT ![w] = NoHist]
     ELSE LET userId == StateGet(oauthState, state, now) IN
          /\ hist' = [hist EXCEPT ![w] = [NoHist EXCEPT !.seen = "get"]]
          /\ IF userId.tag = "none"
             THEN Finish(w, Result("consume", "none", "null", state))
             ELSE /\ pc' = [pc EXCEPT ![w] = "delState"]
                  /\ res' = [res EXCEPT ![w] = NoCsrfRes]
                  /\ loc' = [loc EXCEPT ![w] = CsrfLoc(userId.userId, "none", 0, state)]
  /\ UNCHANGED <<now, oauthState, rateLimits, nextUuid, issued>>
  /\ UNCHANGED <<kv, meta, lock, bearer, made, stored>>

ConsumeDelete_KeepsEntry(w) ==
  /\ pc[w] = "delState"
  /\ issued' = [issued EXCEPT ![loc[w].state].consumed = TRUE]
  /\ Finish(w, Result("consume", loc[w].userId, "owner", loc[w].state))
  /\ UNCHANGED <<now, calls, rateLimits, nextUuid, oauthState>>
  /\ UNCHANGED notCsrf

\* OAUTH_STATE.delete(state); return userId
ConsumeDelete(w) ==
  /\ pc[w] = "delState"
  /\ oauthState' = [oauthState EXCEPT ![loc[w].state] = NoEntry]
  /\ issued' = [issued EXCEPT ![loc[w].state].consumed = TRUE]
  /\ Finish(w, Result("consume", loc[w].userId, "owner", loc[w].state))
  /\ UNCHANGED <<now, calls, rateLimits, nextUuid>>
  /\ UNCHANGED notCsrf

\* time passes, half a state TTL at a time
TickCsrf ==
  /\ now < MaxNow * ((STATE_TTL * MsPerSecond) \div 2)
  /\ now' = now + (STATE_TTL * MsPerSecond) \div 2
  /\ UNCHANGED <<pc, loc, res, calls, oauthState, rateLimits, nextUuid, issued>>
  /\ UNCHANGED notCsrf

\* the counter after n createState calls of one requester at time 0
Issued(n) == IF n = 0 THEN NoEntry ELSE CountEntry(n, STATE_TTL * MsPerSecond)

InitCsrf ==
  /\ kv = [k \in TokenKeys |-> NoEntry]
  /\ now = 0
  /\ pc = [w \in Workers |-> "idle"]
  /\ loc = [w \in Workers |-> NoLoc]
  /\ res = [w \in Workers |-> NoCsrfRes]
  /\ hist = [w \in Workers |-> NoHist]
  /\ calls = 0
  /\ oauthState = [t \in StateTokens |-> NoEntry]
  /\ \E n \in {0, STATE_LIMIT - 1, STATE_LIMIT, STATE_LIMIT + 1} :
       rateLimits = [k \in RateKeys |-> IF k[1] = "state" THEN Issued(n) ELSE NoEntry]
  /\ nextUuid = 1
  /\ issued = [t \in StateTokens |-> NotIssued]
  /\ meta = [k \in TokenKeys |-> 0]
  /\ lock = [k \in TokenKeys |-> "free"]
  /\ bearer = NoBearer
  /\ made = NoneMade
  /\ stored = NoneStored

NextCsrf ==
  \/ \E w \in Workers, u \in Identities, ip \in ClientIps : CreateRead(w, u, ip)
  \/ \E w \in Workers : CreatePutCount(w)
  \/ \E w \in Workers : CreatePutState(w)
  \/ \E w \in Workers, st \in StateTokens \cup {NullState, UnknownState} :
       ConsumeGet(w, st)
  \/ \E w \in Workers : ConsumeDelete(w)
  \/ TickCsrf

SpecCsrf == InitCsrf /\ [][NextCsrf]_vars

\* ------------------------------------------------- encrypt / decrypt alone
KeyOther == "kOther"
Plaintexts ==
  {TextPlain, JsonStringify(Tokens("a0", "r1", 0)), EmptyPlain, IllFormedPlain}
\* the strings decrypt may be handed: EncryptedData made under the current,
\* the previous or a foreign key, untouched or altered, or no JSON at all
Blobs ==
  {RawEntry} \cup
  {[encryptWithKey(p, k, iv) EXCEPT !.intact = ok] :
     p \in Plaintexts, k \in {KeyNew, KeyOld, KeyOther}, iv \in Ivs, ok \in BOOLEAN}

DecryptInfo(plain, previous, error) ==
  [plain |-> plain, previous |-> previous, error |-> error]

\* decrypt(encrypted, env) without tokenKey: no re-encryption follows;
\* oldKey is env.ENCRYPTION_KEY_OLD, NoKey when it is not configured
DecryptOnly(w, u, oldKey) ==
  /\ Begin(w)
  /\ LET d == decryptKeys(kv[TokenKey(u)], KeyNew, oldKey) IN
       /\ hist' = [hist EXCEPT ![w] =
                     [NoHist EXCEPT !.seen = d.status, !.entry = kv[TokenKey(u)]]]
       /\ Finish(w, Result("decryptOnly", u,
                           IF d.status = "fail" THEN "DecryptionFailed" ELSE "ok",
                           DecryptInfo(d.plain, oldKey,
                                       decryptError(kv[TokenKey(u)], KeyNew, oldKey))))
  /\ UNCHANGED <<kv, meta, lock>>
  /\ UNCHANGED notRot

\* webcrypto.getRandomValues(new Uint8Array(12)) of an encrypt call: 96
\* random bits, taken to be a value that no earlier call has drawn
RandomIv == calls + 1

\* encrypt(data, env); the caller keeps the string
EncryptCall(w, u, data, iv) ==
  /\ Begin(w)
  /\ kv' = [kv EXCEPT ![TokenKey(u)] = encrypt(data, KeyNew, iv)]
  /\ hist' = [hist EXCEPT ![w] = [NoHist EXCEPT !.entry = encrypt(data, KeyNew, iv)]]
  /\ Finish(w, Result("encrypt", u, "ok", DecryptInfo(data, NoKey, NoError)))
  /\ UNCHANGED <<meta, lock>>
  /\ UNCHANGED notRot

InitCrypto ==
  /\ kv \in [TokenKeys -> Blobs]
  /\ now = 0
  /\ pc = [w \in Workers |-> "idle"]
  /\ loc = [w \in Workers |-> NoLoc]
  /\ res = [w \in Workers |-> NoRes]
  /\ hist = [w \in Workers |-> NoHist]
  /\ calls = 0
  /\ oauthState = [t \in StateTokens |-> NoEntry]
  /\ rateLimits = [k \in RateKeys |-> NoEntry]
  /\ nextUuid = 1
  /\ issued = [t \in StateTokens |-> NotIssued]
  /\ meta = [k \in TokenKeys |-> 0]
  /\ lock = [k \in TokenKeys |-> "absent"]
  /\ bearer = NoBearer
  /\ made = NoneMade
  /\ stored = NoneStored

NextCrypto ==
  \/ \E w \in Workers, u \in Identities, oldKey \in {KeyOld, NoKey} :
       DecryptOnly(w, u, oldKey)
  \/ \E w \in Workers, u \in Identities, data \in Plaintexts :
       EncryptCall(w, u, data, RandomIv)

SpecCrypto == InitCrypto /\ [][NextCrypto]_vars

\* ------------------------------------------------- RateLimiter.checkLimit
\* a namespace no limiter instance was constructed over
Unbound == [tag |-> "unbound"]
ListEntry(requests, expiresAt) ==
  [tag |-> "list", requests |-> requests, expiresAt |-> expiresAt]

\* requests = JSON.parse(data), [] when there is no data
ParseRequests(entry) == IF entry.tag = "list" THEN entry.requests ELSE <<>>

\* requests.filter(timestamp => timestamp > windowStart)
FilterWindow(requests, windowStart) ==
  LET InWindow(ts) == ts > windowStart IN SelectSeq(requests, InWindow)

\* the count a call finds: the timestamps still in the window, or the counter
FoundCount(impl, entry, t) ==
  IF impl = "list"
  THEN Len(FilterWindow(ParseRequests(entry), t - WINDOW_SIZE * MsPerSecond))
  ELSE ParseCount(entry)

\* what the call goes on to put
NextValue(impl, entry, t) ==
  IF impl = "list"
  THEN [tag |-> "list",
        requests |-> Append(FilterWindow(ParseRequests(entry),
                                         t - WINDOW_SIZE * MsPerSecond), t)]
  ELSE [tag |-> "count", count |-> ParseCount(entry) + 1]

LimitExceeded_Above(count) == count > MAX_REQUESTS
\* requests.length >= MAX_REQUESTS, currentCount >= MAX_REQUESTS
LimitExceeded(count) == count >= MAX_REQUESTS

RlLoc(impl, u, value) == [impl |-> impl, uid |-> u, value |-> value]
AllowInfo(n, t) == [n |-> n, t |-> t]

CheckLimitGet_CountsDenied(w, impl, u, budget) ==
  /\ pc[w] = "idle"
  /\ calls < budget
  /\ calls' = calls + 1
  /\ rateLimits[LimitKey(impl, u)].tag # Unbound.tag
  /\ hist' = [hist EXCEPT ![w] = [NoHist EXCEPT !.entry = rateLimits[LimitKey(impl, u)]]]
  /\ LET data == KvGet(rateLimits, LimitKey(impl, u), now) IN
       IF LimitExceeded(FoundCount(impl, data, now))
       THEN /\ Finish(w, Result("allow", u, "false", AllowInfo(calls + 1, now)))
            /\ rateLimits' =
                 [rateLimits EXCEPT ![LimitKey(impl, u)] =
                    IF impl = "list"
                    THEN ListEntry(NextValue(impl, data, now).requests,
                                   now + WINDOW_SIZE * MsPerSecond)
                    ELSE CountEntry(NextValue(impl, data, now).count,
                                    now + WINDOW_SIZE * MsPerSecond)]
       ELSE /\ pc' = [pc EXCEPT ![w] = "rlPut"]
            /\ res' = [res EXCEPT ![w] =
                         Result("allow", u, "pending", AllowInfo(calls + 1, now))]
            /\ loc' = [loc EXCEPT ![w] = RlLoc(impl, u, NextValue(impl, data, now))]
            /\ UNCHANGED rateLimits
  /\ UNCHANGED now
  /\ UNCHANGED notRl

\* checkLimit up to the await of kvNamespace.put; budget caps the calls made
CheckLimitGet(w, impl, u, budget) ==
  /\ pc[w] = "idle"
  /\ calls < budget
  /\ calls' = calls + 1
  /\ rateLimits[LimitKey(impl, u)].tag # Unbound.tag
  /\ hist' = [hist EXCEPT ![w] = [NoHist EXCEPT !.entry = rateLimits[LimitKey(impl, u)]]]
  /\ LET data == KvGet(rateLimits, LimitKey(impl, u), now) IN
       IF LimitExceeded(FoundCount(impl, data, now))
       THEN Finish(w, Result("allow", u, "false", AllowInfo(calls + 1, now)))
       ELSE /\ pc' = [pc EXCEPT ![w] = "rlPut"]
            /\ res' = [res EXCEPT ![w] =
                         Result("allow", u, "pending", AllowInfo(calls + 1, now))]
            /\ loc' = [loc EXCEPT ![w] = RlLoc(impl, u, NextValue(impl, data, now))]
  /\ UNCHANGED <<now, rateLimits>>
  /\ UNCHANGED notRl

\* kvNamespace.put(key, value, { expirationTtl: WINDOW_SIZE }); return true
CheckLimitPut(w) ==
  /\ pc[w] = "rlPut"
  /\ rateLimits' =
       [rateLimits EXCEPT ![LimitKey(loc[w].impl, loc[w].uid)] =
          IF loc[w].impl = "list"
          THEN ListEntry(loc[w].value.requests, now + WINDOW_SIZE * MsPerSecond)
          ELSE CountEntry(loc[w].value.count, now + WINDOW_SIZE * MsPerSecond)]
  /\ Finish(w, [res[w] EXCEPT !.kind = "true"])
  /\ UNCHANGED <<now, calls, hist>>
  /\ UNCHANGED notRl

\* time passes, half a window at a time
TickRl ==
  /\ now < MaxNow * ((WINDOW_SIZE * MsPerSecond) \div 2)
  /\ now' = now + (WINDOW_SIZE * MsPerSecond) \div 2
  /\ UNCHANGED <<pc, loc, res, calls, hist, rateLimits>>
  /\ UNCHANGED <<notRl, made>>

\* time passes, a whole window at a time
TickWindow ==
  /\ now < MaxNow * (WINDOW_SIZE * MsPerSecond)
  /\ now' = now + WINDOW_SIZE * MsPerSecond
  /\ UNCHANGED <<pc, loc, res, calls, hist, rateLimits>>
  /\ UNCHANGED <<notRl, made>>

\* n requests made at time 0, as either implementation stores them
Stored(impl, n) ==
  IF n = 0 THEN NoEntry
  ELSE IF impl = "list"
  THEN ListEntry([i \in 1..n |-> 0], WINDOW_SIZE * MsPerSecond)
  ELSE CountEntry(n, WINDOW_SIZE * MsPerSecond)

InitRlCommon ==
  /\ kv = [k \in TokenKeys |-> NoEntry]
  /\ now = 0
  /\ pc = [w \in Workers |-> "idle"]
  /\ loc = [w \in Workers |-> NoLoc]
  /\ res = [w \in Workers |-> NoRes]
  /\ hist = [w \in Workers |-> NoHist]
  /\ calls = 0
  /\ oauthState = [t \in StateTokens |-> NoEntry]
  /\ nextUuid = 1
  /\ issued = [t \in StateTokens |-> NotIssued]
  /\ meta = [k \in TokenKeys |-> 0]
  /\ lock = [k \in TokenKeys |-> "free"]
  /\ bearer = NoBearer

\* concurrent requests against counters that are empty or close to the limit
InitRl ==
  /\ InitRlCommon
  /\ made = NoneMade
  /\ stored = NoneStored
  /\ \E n \in {0, MAX_REQUESTS - 1, MAX_REQUESTS} :
       rateLimits = [k \in RateKeys |->
                       IF k[1] = "rate" THEN Stored(k[3], n) ELSE NoEntry]

NextRl ==
  \/ \E w \in Workers, impl \in Limiters, u \in Identities :
       CheckLimitGet(w, impl, u, MaxCalls) /\ UNCHANGED made
  \/ \E w \in Workers : CheckLimitPut(w) /\ UNCHANGED made
  \/ TickRl

SpecRl == InitRl /\ [][NextRl]_vars

\* one request after the other, from an empty counter, against one of the
\* two implementations
InitRlSeq ==
  /\ InitRlCommon
  /\ made = NoneMade
  /\ stored = NoneStored
  /\ \E impl \in Limiters :
       rateLimits = [k \in RateKeys |->
                       IF k[1] = "rate" /\ k[3] # impl THEN Unbound ELSE NoEntry]

NextRlSeq ==
  \/ \E w \in OneWorker, impl \in Limiters, u \in Identities :
       CheckLimitGet(w, impl, u, MaxAllow) /\ UNCHANGED made
  \/ \E w \in OneWorker : CheckLimitPut(w) /\ UNCHANGED made
  \/ TickWindow

SpecRlSeq == InitRlSeq /\ [][NextRlSeq]_vars

\* between two calls time passes, three quarters of a window at a time
TickSpan ==
  /\ \A w \in OneWorker : pc[w] = "idle"
  /\ now < MaxNow * SpanStep
  /\ now' = now + SpanStep
  /\ UNCHANGED <<pc, loc, res, calls, hist, rateLimits>>
  /\ UNCHANGED <<notRl, made>>

\* one request after the other against one of the two implementations, after
\* n requests made and counted at time 0; every request made is recorded
InitRlWin ==
  /\ InitRlCommon
  /\ \E impl \in Limiters, n \in {0, MAX_REQUESTS - 1} :
       /\ rateLimits = [k \in RateKeys |->
                          IF k[1] # "rate" THEN NoEntry
                          ELSE IF k[3] # impl THEN Unbound ELSE Stored(impl, n)]
       /\ made = [NoneMade EXCEPT ![0] = n]
       /\ stored = NoneStored

NextRlWin ==
  \/ \E w \in OneWorker, impl \in Limiters, u \in Identities :
       /\ CheckLimitGet(w, impl, u, MaxCalls)
       /\ made' = [made EXCEPT ![now] = @ + 1]
  \/ \E w \in OneWorker : CheckLimitPut(w) /\ UNCHANGED made
  \/ TickSpan

SpecRlWin == InitRlWin /\ [][NextRlWin]_vars

\* overlapping requests of one identity within one window, after n requests
\* were allowed at time 0; every request that is allowed is recorded
InitRlRace ==
  /\ InitRlCommon
  /\ \E impl \in Limiters, n \in {0, MAX_REQUESTS - 2} :
       /\ rateLimits = [k \in RateKeys |->
                          IF k[1] # "rate" THEN NoEntry
                          ELSE IF k[3] # impl THEN Unbound ELSE Stored(impl, n)]
       /\ made = [NoneMade EXCEPT ![0] = n]
       /\ stored = NoneStored

NextRlRace ==
  \/ \E w \in Workers, impl \in Limiters, u \in Identities :
       CheckLimitGet(w, impl, u, MaxCalls + 1) /\ UNCHANGED made
  \/ \E w \in Workers :
       CheckLimitPut(w) /\ made' = [made EXCEPT ![now] = @ + 1]

SpecRlRace == InitRlRace /\ [][NextRlRace]_vars

RECURSIVE MadeIn(_, _)
\* the number of requests made at the times in ts
MadeIn(log, ts) ==
  IF ts = {} THEN 0
  ELSE LET t == CHOOSE x \in ts : TRUE IN log[t] + MadeIn(log, ts \ {t})

\* the requests made in the WINDOW_SIZE seconds that end at time t, both ends
\* included
MadeInSpan(log, t) ==
  MadeIn(log, {x \in RlTimes : t - WINDOW_SIZE * MsPerSecond <= x /\ x <= t})

\* ------------------------------------------- decrypt with key rotation
\* TOKEN_STORE is the namespace the credentials live in; metadata.version is 0
\* for an entry written without metadata.  lock[k] is "absent" when no
\* ROTATION_LOCK binding is configured, "simple" when the module is the
\* decrypt of jwt.ts, which re-encrypts without lock and without reading the
\* metadata, else "free" or the holding worker.
RotLoc(u, plain) == [uid |-> u, decryptedData |-> plain]

\* performReEncryptionWithConditionalWrite: const maxRetries = 3 and
\* let retries = 0, which no statement of the loop changes
maxRetries == 3
retries == 0

\* The ROTATION_LOCK service, one lock per token key.  The requests carry
\* { key, ttl } and { key }: no holder identity.  acquire is granted when the
\* lock is free, release frees it, and a lock not released within its TTL
\* becomes free by itself.
LockAcquire(lk, k, w) ==
  IF lk[k] = "free" THEN [ok |-> TRUE, lock |-> [lk EXCEPT ![k] = w]]
  ELSE [ok |-> FALSE, lock |-> lk]
LockRelease(lk, k) == [lk EXCEPT ![k] = "free"]

\* the 30 second TTL of a held lock elapses
LockExpire(k) ==
  /\ lock[k] \in Workers
  /\ lock' = [lock EXCEPT ![k] = "free"]
  /\ UNCHANGED <<kv, meta, pc, loc, res, hist, calls>>
  /\ UNCHANGED notRot

\* a caller reads the entry and calls decrypt(encrypted, env, tokenKey); the
\* call runs to its return, its throw, or the first await of reEncryptToken
DecryptFrom(w, u) ==
  /\ kv[TokenKey(u)].tag # "none"
  /\ LET d == decryptKeys(kv[TokenKey(u)], KeyNew, KeyOld) IN
       /\ hist' = [hist EXCEPT ![w] =
                     [NoHist EXCEPT !.seen = d.status, !.entry = kv[TokenKey(u)]]]
       /\ IF d.status = "fail"
          THEN Finish(w, Result("decrypt", u, "DecryptionFailed", NoPlain))
          ELSE IF d.status = "ok"
          THEN Finish(w, Result("decrypt", u, "ok", d.plain))
          ELSE /\ pc' = [pc EXCEPT ![w] =
                          IF lock[TokenKey(u)] = "absent" THEN "cwRead"
                          ELSE IF lock[TokenKey(u)] = "simple" THEN "simplePut"
                          ELSE "acquire"]
               /\ res' = [res EXCEPT ![w] = NoRes]
               /\ loc' = [loc EXCEPT ![w] = RotLoc(u, d.plain)]
  /\ UNCHANGED <<kv, meta, lock>>
  /\ UNCHANGED notRot

DecryptCall(w, u) == Begin(w) /\ DecryptFrom(w, u)

\* variant of RotAcquireOk: the worker that was granted the lock returns
\* without re-encrypting and without releasing
RotAcquireOk_GivesUp(w) ==
  /\ pc[w] = "acquire"
  /\ LockAcquire(lock, TokenKey(loc[w].uid), w).ok
  /\ lock' = LockAcquire(lock, TokenKey(loc[w].uid), w).lock
  /\ Finish(w, Result("decrypt", loc[w].uid, "ok", loc[w].decryptedData))
  /\ UNCHANGED <<kv, meta, hist, calls>>
  /\ UNCHANGED notRot

\* lock.fetch('https://lock/acquire') answers ok: this worker holds the lock
RotAcquireOk(w) ==
  /\ pc[w] = "acquire"
  /\ LockAcquire(lock, TokenKey(loc[w].uid), w).ok
  /\ lock' = LockAcquire(lock, TokenKey(loc[w].uid), w).lock
  /\ pc' = [pc EXCEPT ![w] = "lockedPut"]
  /\ UNCHANGED <<kv, meta, loc, res, hist, calls>>
  /\ UNCHANGED notRot

\* the answer is not ok: another worker is re-encrypting, return
RotAcquireBusy(w) ==
  /\ pc[w] = "acquire"
  /\ ~LockAcquire(lock, TokenKey(loc[w].uid), w).ok
  /\ Finish(w, Result("decrypt", loc[w].uid, "ok", loc[w].decryptedData))
  /\ UNCHANGED <<kv, meta, lock, hist, calls>>
  /\ UNCHANGED notRot

\* an awaited call inside reEncryptToken rejects: nothing between it and the
\* caller of decrypt catches the error
RotThrow(w) ==
  Finish(w, Result("decrypt", loc[w].uid, "Threw", NoPlain))

\* lock.fetch(acquire) rejects (the lock service is unreachable)
RotAcquireError(w) ==
  /\ pc[w] = "acquire"
  /\ RotThrow(w)
  /\ UNCHANGED <<kv, meta, lock, hist, calls>>
  /\ UNCHANGED notRot

RotPut_UnderOldKey(w, iv) ==
  /\ kv' = [kv EXCEPT ![TokenKey(loc[w].uid)] = encrypt(loc[w].decryptedData, KeyOld, iv)]
  /\ meta' = [meta EXCEPT ![TokenKey(loc[w].uid)] = CURRENT_VERSION]
  /\ hist' = [hist EXCEPT ![w].put = "ok"]

\* TOKEN_STORE.put(tokenKey, newEncrypted, { metadata: { version } })
RotPut(w, iv) ==
  /\ kv' = [kv EXCEPT ![TokenKey(loc[w].uid)] = encrypt(loc[w].decryptedData, KeyNew, iv)]
  /\ meta' = [meta EXCEPT ![TokenKey(loc[w].uid)] = CURRENT_VERSION]
  /\ hist' = [hist EXCEPT ![w].put = "ok"]

\* performReEncryption resolves; the finally block goes on to the release
RotLockedPutOk(w, iv) ==
  /\ pc[w] = "lockedPut"
  /\ RotPut(w, iv)
  /\ pc' = [pc EXCEPT ![w] = "release"]
  /\ UNCHANGED <<lock, loc, res, calls>>
  /\ UNCHANGED notRot

\* performReEncryption rejects (the put fails); the finally block still runs
RotLockedPutFail(w) ==
  /\ pc[w] = "lockedPut"
  /\ hist' = [hist EXCEPT ![w].put = "failed"]
  /\ pc' = [pc EXCEPT ![w] = "release"]
  /\ UNCHANGED <<kv, meta, lock, loc, res, calls>>
  /\ UNCHANGED notRot

\* lock.fetch('https://lock/release', { key }) resolves; a failed put now
\* propagates
RotReleaseOk(w) ==
  /\ pc[w] = "release"
  /\ lock' = LockRelease(lock, TokenKey(loc[w].uid))
  /\ IF hist[w].put = "failed"
     THEN RotThrow(w)
     ELSE Finish(w, Result("decrypt", loc[w].uid, "ok", loc[w].decryptedData))
  /\ UNCHANGED <<kv, meta, hist, calls>>
  /\ UNCHANGED notRot

\* lock.fetch(release) rejects
RotReleaseError(w) ==
  /\ pc[w] = "release"
  /\ RotThrow(w)
  /\ UNCHANGED <<kv, meta, lock, hist, calls>>
  /\ UNCHANGED notRot

\* performReEncryptionWithConditionalWrite: TOKEN_STORE.getWithMetadata
\* resolves; absent value throws, version already current returns
\* hist[w].attempts counts the iterations of the while loop that got as far
\* as the read
RotCwRead(w) ==
  /\ pc[w] = "cwRead"
  /\ retries < maxRetries
  /\ IF kv[TokenKey(loc[w].uid)].tag = "none"
     THEN RotThrow(w)
     ELSE IF meta[TokenKey(loc[w].uid)] = CURRENT_VERSION
     THEN Finish(w, Result("decrypt", loc[w].uid, "ok", loc[w].decryptedData))
     ELSE /\ pc' = [pc EXCEPT ![w] = "cwPut"]
          /\ UNCHANGED <<loc, res>>
  /\ hist' = [hist EXCEPT ![w].attempts = @ + 1]
  /\ UNCHANGED <<kv, meta, lock, calls>>
  /\ UNCHANGED notRot

\* variant of RotCwPutFail: a rejected put is caught and the loop goes round
\* again
RotCwPutFail_Retries(w) ==
  /\ pc[w] = "cwPut"
  /\ hist' = [hist EXCEPT ![w].put = "failed"]
  /\ pc' = [pc EXCEPT ![w] = "cwRead"]
  /\ UNCHANGED <<kv, meta, lock, loc, res, calls>>
  /\ UNCHANGED notRot

\* TOKEN_STORE.getWithMetadata rejects
RotCwReadError(w) ==
  /\ pc[w] = "cwRead"
  /\ RotThrow(w)
  /\ UNCHANGED <<kv, meta, lock, hist, calls>>
  /\ UNCHANGED notRot

\* the put of the conditional-write path resolves; break
RotCwPutOk(w, iv) ==
  /\ pc[w] = "cwPut"
  /\ RotPut(w, iv)
  /\ Finish(w, Result("decrypt", loc[w].uid, "ok", loc[w].decryptedData))
  /\ UNCHANGED <<lock, calls>>
  /\ UNCHANGED notRot

\* the put of the conditional-write path rejects
RotCwPutFail(w) ==
  /\ pc[w] = "cwPut"
  /\ hist' = [hist EXCEPT ![w].put = "failed"]
  /\ RotThrow(w)
  /\ UNCHANGED <<kv, meta, lock, calls>>
  /\ UNCHANGED notRot

\* jwt.ts reEncryptToken: the put resolves, decrypt returns
RotSimplePutOk(w, iv) ==
  /\ pc[w] = "simplePut"
  /\ RotPut(w, iv)
  /\ Finish(w, Result("decrypt", loc[w].uid, "ok", loc[w].decryptedData))
  /\ UNCHANGED <<lock, calls>>
  /\ UNCHANGED notRot

\* jwt.ts reEncryptToken: the put rejects
RotSimplePutFail(w) ==
  /\ pc[w] = "simplePut"
  /\ hist' = [hist EXCEPT ![w].put = "failed"]
  /\ RotThrow(w)
  /\ UNCHANGED <<kv, meta, lock, calls>>
  /\ UNCHANGED notRot

\* a worker that never stops reading the record: one more decrypt call
KeepDecrypting(w, u) ==
  /\ pc[w] = "idle"
  /\ DecryptFrom(w, u)
  /\ UNCHANGED calls

\* the worker that holds the lock dies between its acquire and its release:
\* nothing it was about to do happens, the lock stays as it is
HolderCrash(w) ==
  /\ pc[w] \in {"lockedPut", "release"}
  /\ Finish(w, Result("decrypt", loc[w].uid, "Crashed", NoPlain))
  /\ hist' = [hist EXCEPT ![w].put = "crashed"]
  /\ UNCHANGED <<kv, meta, lock, calls>>
  /\ UNCHANGED notRot

\* TokenStorage.storeTokens(userId, tokens): one put, without metadata
StoreCall(w, u, tokens, iv) ==
  /\ Begin(w)
  /\ kv' = storeTokens(kv, u, tokens, iv)
  /\ meta' = [meta EXCEPT ![TokenKey(u)] = 0]
  /\ hist' = [hist EXCEPT ![w] = NoHist]
  /\ Finish(w, Result("store", u, "void", tokens))
  /\ UNCHANGED lock
  /\ UNCHANGED notRot

\* TokenStorage.deleteTokens(userId)
DeleteCall(w, u) ==
  /\ Begin(w)
  /\ kv' = deleteTokens(kv, u)
  /\ meta' = [meta EXCEPT ![TokenKey(u)] = 0]
  /\ hist' = [hist EXCEPT ![w] = NoHist]
  /\ Finish(w, Result("delete", u, "void", NoTokens))
  /\ UNCHANGED lock
  /\ UNCHANGED notRot

\* the credential a concurrent authorization or refresh stores
NewTokens == Tokens("a1", "r1", MsPerSecond)

InitRot ==
  /\ kv = [k \in TokenKeys |-> OldRecord]
  /\ now = 0
  /\ pc = [w \in Workers |-> "idle"]
  /\ loc = [w \in Workers |-> NoLoc]
  /\ res = [w \in Workers |-> NoRes]
  /\ hist = [w \in Workers |-> NoHist]
  /\ calls = 0
  /\ oauthState = [t \in StateTokens |-> NoEntry]
  /\ rateLimits = [k \in RateKeys |-> NoEntry]
  /\ nextUuid = 1
  /\ issued = [t \in StateTokens |-> NotIssued]
  /\ meta = [k \in TokenKeys |-> 0]
  /\ \E l \in {"absent", "free", "simple"} : lock = [k \in TokenKeys |-> l]
  /\ bearer = NoBearer
  /\ made = NoneMade
  /\ stored = NoneStored

NextRot ==
  \/ \E w \in Workers, u \in Identities : DecryptCall(w, u)
  \/ \E w \in Workers : RotAcquireOk(w)
  \/ \E w \in Workers : RotAcquireBusy(w)
  \/ \E w \in Workers : RotAcquireError(w)
  \/ \E w \in Workers, iv \in Ivs : RotLockedPutOk(w, iv)
  \/ \E w \in Workers : RotLockedPutFail(w)
  \/ \E w \in Workers : RotReleaseOk(w)
  \/ \E w \in Workers : RotReleaseError(w)
  \/ \E w \in Workers : RotCwRead(w)
  \/ \E w \in Workers : RotCwReadError(w)
  \/ \E w \in Workers, iv \in Ivs : RotCwPutOk(w, iv)
  \/ \E w \in Workers : RotCwPutFail(w)
  \/ \E w \in Workers, iv \in Ivs : RotSimplePutOk(w, iv)
  \/ \E w \in Workers : RotSimplePutFail(w)
  \/ \E w \in Workers, u \in Identities, iv \in Ivs : StoreCall(w, u, NewTokens, iv)
  \/ \E w \in Workers, u \in Identities : DeleteCall(w, u)
  \/ \E k \in TokenKeys : LockExpire(k)

SpecRot == InitRot /\ [][NextRot]_vars

\* A deployment with the ROTATION_LOCK binding whose workers keep decrypting
\* the previous-key record.  Fairness: an idle worker decrypts again; an
\* acquire sent while the lock is free is eventually answered; the put does
\* not reject forever; the release request is answered or rejected; a held
\* lock reaches the end of its TTL.
InitRotLive ==
  /\ InitRot
  /\ lock = [k \in TokenKeys |-> "free"]

NextRotLive ==
  \/ \E w \in Workers, u \in Identities : KeepDecrypting(w, u)
  \/ \E w \in Workers : RotAcquireOk(w)
  \/ \E w \in Workers : RotAcquireBusy(w)
  \/ \E w \in Workers : RotAcquireError(w)
  \/ \E w \in Workers, iv \in Ivs : RotLockedPutOk(w, iv)
  \/ \E w \in Workers : RotLockedPutFail(w)
  \/ \E w \in Workers : RotReleaseOk(w)
  \/ \E w \in Workers : RotReleaseError(w)
  \/ \E w \in Workers : HolderCrash(w)
  \/ \E k \in TokenKeys : LockExpire(k)

FairRotLive ==
  /\ \A w \in Workers : WF_vars(\E u \in Identities : KeepDecrypting(w, u))
  /\ \A w \in Workers : SF_vars(RotAcquireOk(w))
  /\ \A w \in Workers : WF_vars(RotReleaseOk(w) \/ RotReleaseError(w))
  /\ \A w \in Workers : SF_vars(\E iv \in Ivs : RotLockedPutOk(w, iv))
  /\ \A k \in TokenKeys : WF_vars(LockExpire(k))

SpecRotLive == InitRotLive /\ [][NextRotLive]_vars /\ FairRotLive

\* A deployment without the ROTATION_LOCK binding: every old-key decrypt goes
\* through performReEncryptionWithConditionalWrite, while the record may be
\* deleted.  Fairness: the getWithMetadata and the put each settle.
InitRotCw ==
  /\ InitRot
  /\ lock = [k \in TokenKeys |-> "absent"]

NextRotCw ==
  \/ \E w \in Workers, u \in Identities : KeepDecrypting(w, u)
  \/ \E w \in Workers : RotCwRead(w)
  \/ \E w \in Workers : RotCwReadError(w)
  \/ \E w \in Workers, iv \in Ivs : RotCwPutOk(w, iv)
  \/ \E w \in Workers : RotCwPutFail(w)
  \/ \E w \in Workers, u \in Identities : DeleteCall(w, u)

FairRotCw ==
  /\ \A w \in Workers : WF_vars(RotCwRead(w) \/ RotCwReadError(w))
  /\ \A w \in Workers : WF_vars((\E iv \in Ivs : RotCwPutOk(w, iv)) \/ RotCwPutFail(w))

SpecRotCw == InitRotCw /\ [][NextRotCw]_vars /\ FairRotCw

\* ------------------------------------------------ TokenStorage as a map
\* Two identities, one client calling storeTokens, getTokens and deleteTokens
\* one after the other, over the whole retention period.  In this
\* specification the clock counts seconds, and an entry of the namespace is
\* the stored string together with the time its expirationTtl runs out.
TOKEN_TTL == 90 * 24 * 60 * 60
OwnerKeys == {TokenKey(u) : u \in Owners}
KeptEntry(value, expiresAt) ==
  [tag |-> "kept", value |-> value, expiresAt |-> expiresAt]
StoreRecords == {Tokens("a0", "r1", 0), Tokens("a1", "none", 0)}

\* kvNamespace.get(key) at time t: the stored string, or null
KeptValue(store, key, t) ==
  IF KvGet(store, key, t).tag = "none" THEN NoEntry ELSE KvGet(store, key, t).value

\* what TokenStorage.getTokens(userId) returns at time t
ReadTokens(store, userId, t) == getTokens(KeptValue(store, TokenKey(userId), t), KeyNew)

\* TokenStorage.storeTokens: encrypt, then put with expirationTtl of 90 days
StorePut(w, u, tokens, iv) ==
  /\ Begin(w)
  /\ kv' = [kv EXCEPT ![TokenKey(u)] =
               KeptEntry(storeTokens(kv, u, tokens, iv)[TokenKey(u)], now + TOKEN_TTL)]
  /\ stored' = [stored EXCEPT ![u] = [tag |-> "stored", rec |-> tokens, at |-> now]]
  /\ Finish(w, Result("store", u, "void", tokens))
  /\ UNCHANGED <<now, hist, oauthState, rateLimits, nextUuid, meta, lock, bearer,
                 issued, made>>

\* TokenStorage.getTokens
StoreGet(w, u) ==
  /\ Begin(w)
  /\ Finish(w, Result("get", u, ReadTokens(kv, u, now).kind, ReadTokens(kv, u, now).val))
  /\ UNCHANGED <<kv, now, hist, oauthState, rateLimits, nextUuid, meta, lock, bearer,
                 issued, made, stored>>

\* TokenStorage.deleteTokens
StoreDelete(w, u) ==
  /\ Begin(w)
  /\ kv' = deleteTokens(kv, u)
  /\ stored' = [stored EXCEPT ![u] = [tag |-> "deleted"]]
  /\ Finish(w, Result("delete", u, "void", NoTokens))
  /\ UNCHANGED <<now, hist, oauthState, rateLimits, nextUuid, meta, lock, bearer,
                 issued, made>>

\* time passes, half a retention period at a time
TickRetention ==
  /\ now < MaxNow * (TOKEN_TTL \div 2)
  /\ now' = now + TOKEN_TTL \div 2
  /\ UNCHANGED <<kv, pc, loc, res, hist, calls, oauthState, rateLimits, nextUuid,
                 meta, lock, bearer, issued, made, stored>>

InitStore ==
  /\ kv = [k \in OwnerKeys |-> NoEntry]
  /\ now = 0
  /\ pc = [w \in Workers |-> "idle"]
  /\ loc = [w \in Workers |-> NoLoc]
  /\ res = [w \in Workers |-> NoRes]
  /\ hist = [w \in Workers |-> NoHist]
  /\ calls = 0
  /\ oauthState = [t \in StateTokens |-> NoEntry]
  /\ rateLimits = [k \in RateKeys |-> NoEntry]
  /\ nextUuid = 1
  /\ issued = [t \in StateTokens |-> NotIssued]
  /\ meta = [k \in TokenKeys |-> 0]
  /\ lock = [k \in TokenKeys |-> "free"]
  /\ bearer = NoBearer
  /\ made = NoneMade
  /\ stored = NoneStored

NextStore ==
  \/ \E w \in OneWorker, u \in Owners, r \in StoreRecords, iv \in Ivs :
       StorePut(w, u, r, iv)
  \/ \E w \in OneWorker, u \in Owners : StoreGet(w, u)
  \/ \E w \in OneWorker, u \in Owners : StoreDelete(w, u)
  \/ TickRetention

SpecStore == InitStore /\ [][NextStore]_vars

\* C2: when one decrypt of a previous-key record and one storeTokens of the
\* same key are the only calls made and both have completed, the stored
\* value decrypts to the credential storeTokens was given.
C2_StoreSurvivesRotation ==
  \A w, v \in Workers :
    ( /\ calls = 2 /\ pc[w] = "idle" /\ pc[v] = "idle"
      /\ res[w].op = "decrypt" /\ res[v].op = "store" )
    => /\ kv[TokenKey(res[v].uid)].tag = "enc"
       /\ decryptKeys(kv[TokenKey(res[v].uid)], KeyNew, KeyOld).plain
            = JsonStringify(res[v].val)

\* C3: a decrypt that succeeded under the previous key returns the plaintext,
\* whatever happens to the re-encryption that follows it.
C3_DecryptSurvivesRotationFailure ==
  \A w \in Workers :
    (pc[w] = "idle" /\ res[w].op = "decrypt" /\ hist[w].seen = "old")
    => /\ res[w].kind = "ok"
       /\ res[w].val = decryptWithKey(hist[w].entry, KeyOld).plain

\* the count an entry holds, expired or not
StoredCount(entry) ==
  IF entry.tag = "list" THEN Len(entry.requests)
  ELSE IF entry.tag = "count" THEN entry.count ELSE 0

InFlight(impl, u) ==
  {w \in Workers : pc[w] = "rlPut" /\ loc[w].impl = impl /\ loc[w].uid = u}

\* C13: the stored count of an identity never exceeds MAX_REQUESTS plus the
\* number of checkLimit calls for it that are between their read and their
\* write.
C13_CountBounded ==
  \A impl \in Limiters, u \in Identities :
    StoredCount(rateLimits[LimitKey(impl, u)])
      <= MAX_REQUESTS + Cardinality(InFlight(impl, u))

\* two calls read the same entry one short of the limit, both were allowed
\* and the stored count is at the limit
C13_Witness ==
  \E impl \in Limiters, u \in Identities :
    /\ StoredCount(rateLimits[LimitKey(impl, u)]) = MAX_REQUESTS
    /\ \A w \in Workers :
         /\ pc[w] = "idle" /\ res[w].op = "allow" /\ res[w].kind = "true"
         /\ hist[w].entry = Stored(impl, MAX_REQUESTS - 1)

\* C14: of the calls made one after the other from an empty counter within
\* one window, calls 1 to MAX_REQUESTS return true and the next returns
\* false; a call made once the TTL of the last stored entry has run out
\* returns true.
C14_WindowOfMax ==
  \A w \in OneWorker :
    (pc[w] = "idle" /\ res[w].op = "allow")
    => /\ res[w].val.t = 0
            => (res[w].kind = "true" <=> res[w].val.n <= MAX_REQUESTS)
       /\ (hist[w].entry.tag \in {"list", "count"}
              /\ res[w].val.t >= hist[w].entry.expiresAt)
            => res[w].kind = "true"

\* the call after a full window has run out is allowed
C14_Witness ==
  \E w \in OneWorker :
    /\ pc[w] = "idle" /\ res[w].op = "allow" /\ res[w].kind = "true"
    /\ StoredCount(hist[w].entry) = MAX_REQUESTS
    /\ res[w].val.t >= hist[w].entry.expiresAt
    /\ res[w].val.n = MAX_REQUESTS + 2

\* C15: when createState calls of one requester follow one another within a
\* window, the call that finds n earlier calls counted returns a token if
\* n < STATE_LIMIT and null otherwise: the first 10 succeed, the 11th fails.
C15_EleventhRefused ==
  [][\A w \in Workers, ip \in ClientIps :
       ( /\ \A v \in Workers : pc[v] = "idle"
         /\ calls' # calls
         /\ (pc'[w] = "putCount" \/ (pc'[w] = "idle" /\ res'[w].op = "create"
                                                    /\ res[w].op # "create")) )
       => LET n == ParseCount(KvGet(rateLimits, RateKey(ip), now))
          IN IF n < STATE_LIMIT THEN pc'[w] = "putCount"
             ELSE res'[w].kind = "null"]_vars

\* token st was issued less than STATE_TTL seconds ago and no consumeState
\* call has returned its owner yet
Consumable(st) ==
  /\ st \in StateTokens
  /\ issued[st].owner # "none"
  /\ now < issued[st].at + STATE_TTL * MsPerSecond
  /\ ~issued[st].consumed

\* C16: a consumeState call made while no other call is running returns the
\* owner o exactly when its token was issued for o less than STATE_TTL
\* seconds earlier and has not been consumed since, and null otherwise.
C16_ConsumeOnce ==
  [][\A w \in Workers :
       /\ ( /\ \A v \in Workers : pc[v] = "idle"
            /\ calls' # calls
            /\ pc'[w] = "delState" )
          => /\ Consumable(loc'[w].state)
             /\ loc'[w].userId = issued[loc'[w].state].owner
       /\ ( /\ \A v \in Workers : pc[v] = "idle"
            /\ calls' # calls
            /\ pc'[w] = "idle" /\ res'[w].op = "consume"
            /\ (res[w].op # "consume" \/ res[w].kind # res'[w].kind
                                       \/ res[w].val # res'[w].val) )
          => /\ res'[w].kind = "null"
             /\ ~Consumable(res'[w].val)
       /\ (pc[w] = "delState" /\ pc'[w] = "idle")
          => /\ res'[w].kind = "owner"
             /\ res'[w].uid = issued[res'[w].val].owner]_vars

\* a token was consumed and a later call on it returned null
C16_Witness ==
  \E w, v \in Workers :
    /\ pc[w] = "idle" /\ res[w].op = "consume" /\ res[w].kind = "owner"
    /\ pc[v] = "idle" /\ res[v].op = "consume" /\ res[v].kind = "null"
    /\ res[v].val = res[w].val
    /\ calls = MaxCalls

\* the step is the first step of a getValidTokens(u) call by w
GvtStarts(w, u) ==
  /\ pc[w] = "idle"
  /\ calls' # calls
  /\ \/ pc'[w] = "refresh" /\ loc'[w].uid = u
     \/ pc'[w] = "idle" /\ res'[w].op = "gvt" /\ res'[w].uid = u /\ res'[w] # res[w]

C18_NotFoundUnrefreshable ==
  [][\A w \in Workers, u \in Identities :
       GvtStarts(w, u)
       => LET t == StoredTokens(kv, u) IN
            /\ kv[TokenKey(u)] = NoEntry
                 => /\ pc'[w] = "idle" /\ res'[w].kind = "NotFound"
                    /\ hist'[w].refreshArg = "none" /\ kv' = kv
            /\ (t.tag = "tokens" /\ t.expires_at <= now /\ t.refresh_token = "none")
                 => /\ pc'[w] = "idle" /\ res'[w].kind = "Unrefreshable"
                    /\ hist'[w].refreshArg = "none" /\ kv' = kv]_vars

\* one call failed with NotFound on an empty store, another with
\* Unrefreshable on an expired record without refresh token
C18_Witness ==
  \E w, v \in Workers :
    /\ pc[w] = "idle" /\ res[w].op = "gvt" /\ res[w].kind = "NotFound"
    /\ hist[w].seen = "none"
    /\ pc[v] = "idle" /\ res[v].op = "gvt" /\ res[v].kind = "Unrefreshable"
    /\ StoredTokens(kv, res[v].uid).tag = "tokens"
    /\ StoredTokens(kv, res[v].uid).refresh_token = "none"

\* C19: a record encrypted under the previous key decrypts to its plaintext
\* when the previous key is configured; decrypt fails when the record is not
\* under the current key and no previous key is configured, and when the
\* record opens under neither key.
C19_PreviousKeyFallback ==
  \A w \in Workers :
    (pc[w] = "idle" /\ res[w].op = "decryptOnly" /\ hist[w].entry.tag = "enc")
    => LET b == hist[w].entry
           opensNew == b.key = KeyNew /\ b.intact
           opensOld == b.key = KeyOld /\ b.intact
       IN /\ (opensOld /\ res[w].val.previous = KeyOld)
               => (res[w].kind = "ok" /\ res[w].val.plain = b.plain)
          /\ (~opensNew /\ res[w].val.previous = NoKey)
               => res[w].kind = "DecryptionFailed"
          /\ (~opensNew /\ ~opensOld) => res[w].kind = "DecryptionFailed"

\* one decrypt opened a previous-key record through the fallback, another
\* failed on it for want of the previous key
C19_Witness ==
  \E w, v \in Workers :
    /\ pc[w] = "idle" /\ res[w].op = "decryptOnly" /\ res[w].kind = "ok"
    /\ hist[w].seen = "old"
    /\ pc[v] = "idle" /\ res[v].op = "decryptOnly"
    /\ res[v].kind = "DecryptionFailed"
    /\ hist[v].entry = hist[w].entry /\ res[v].val.previous = NoKey

\* C20: the re-encryption write of a decrypt that opened a record under the
\* previous key leaves a value that decrypts to the same plaintext with the
\* current key alone; and when that decrypt is the only call made and has
\* ended with its re-encryption done, the stored value is still that one.
C20_ReEncryptedUnderCurrent ==
  /\ [][\A w \in Workers :
          (hist[w].seen = "old" /\ hist[w].put = "none" /\ hist'[w].put = "ok")
          => LET d == decryptKeys(kv'[TokenKey(loc[w].uid)], KeyNew, NoKey) IN
               /\ d.status = "ok"
               /\ d.plain = decryptWithKey(hist[w].entry, KeyOld).plain]_vars
  /\ [](\A w \in Workers, u \in Identities :
          ( /\ calls = 1 /\ pc[w] = "idle" /\ res[w].op = "decrypt" /\ res[w].uid = u
            /\ hist[w].seen = "old" /\ hist[w].put = "ok" )
          => LET d == decryptKeys(kv[TokenKey(u)], KeyNew, NoKey) IN
               /\ d.status = "ok"
               /\ d.plain = decryptWithKey(hist[w].entry, KeyOld).plain)

\* a decrypt has returned after re-encrypting, no other call was made, and
\* the stored value opens under the current key alone
C20_Witness ==
  \E w \in Workers, u \in Identities :
    /\ calls = 1 /\ pc[w] = "idle" /\ res[w].op = "decrypt" /\ res[w].kind = "ok"
    /\ hist[w].seen = "old" /\ hist[w].put = "ok"
    /\ decryptKeys(kv[TokenKey(u)], KeyNew, NoKey).status = "ok"
    /\ decryptKeys(kv[TokenKey(u)], KeyNew, NoKey).plain = res[w].val

\* C11: a record found under the previous key is re-encrypted and written to
\* the store exactly once, however many workers decrypt it concurrently.
C11_ReEncryptedOnce ==
  Cardinality({w \in Workers : hist[w].seen = "old" /\ hist[w].put = "ok"}) <= 1

\* C12: while a worker holds the rotation lock of a record, another worker's
\* acquire is refused, the refused worker writes nothing and returns without
\* error, and at most one worker is executing the re-encryption write.
C12_LockExcludesWriters ==
  /\ [][\A w, v \in Workers :
          ( /\ w # v /\ pc[v] = "acquire" /\ pc'[v] # "acquire"
            /\ lock[TokenKey(loc[v].uid)] = w /\ res'[v].kind # "Threw" )
          => /\ kv' = kv
             /\ pc'[v] = "idle" /\ res'[v].kind = "ok"]_vars
  /\ [](\A w, v \in Workers :
          (pc[w] = "lockedPut" /\ pc[v] = "lockedPut" /\ loc[w].uid = loc[v].uid)
          => w = v)

\* ------------------------------------------------- bearer token validation
JWT_SECRET == "secret"
Absent == 0 - 1
SubAbsent == "<absent>"

\* the signature segment: an HMAC-SHA256 under `secret`; intact says it was
\* computed over the two segments the token carries, b64 is FALSE for a
\* segment that is no base64 text at all
Signature(secret, intact, b64) == [mac |-> secret, intact |-> intact, b64 |-> b64]

Claims(exp, nbf, iat, sub) ==
  [tag |-> "claims", exp |-> exp, nbf |-> nbf, iat |-> iat, sub |-> sub]
\* a claim-set segment that does not decode to JSON
GarbagePayload == [tag |-> "garbage"]

Bearer(prefix, parts, header, payload, sig, tol) ==
  [tag |-> "bearer", prefix |-> prefix, parts |-> parts, header |-> header,
   payload |-> payload, sig |-> sig, clockTolerance |-> tol]

JwtResult(kind, sub) == [kind |-> kind, sub |-> sub]

\* expected === signatureB64 (validation.ts), crypto.subtle.verify (validateJWT)
SignatureValid(b) == b.sig = Signature(JWT_SECRET, TRUE, TRUE)

\* validation.ts validateRequest(authHeader, { clockTolerance })
validateRequest(b, t) ==
  LET p == b.payload
      tol == b.clockTolerance
  IN IF ~b.prefix THEN JwtResult("Malformed", SubAbsent)
     ELSE IF b.parts # 3 THEN JwtResult("Malformed", SubAbsent)
     ELSE IF ~SignatureValid(b) THEN JwtResult("InvalidSignature", SubAbsent)
     ELSE IF p.tag # "claims" THEN JwtResult("Malformed", SubAbsent)
     ELSE IF p.exp # Absent /\ t >= p.exp + tol THEN JwtResult("Expired", SubAbsent)
     ELSE IF p.nbf # Absent /\ t < p.nbf - tol THEN JwtResult("NotYetValid", SubAbsent)
     ELSE IF p.iat # Absent /\ p.iat > t + tol THEN JwtResult("NotYetValid", SubAbsent)
     ELSE IF p.sub = SubAbsent THEN JwtResult("Malformed", SubAbsent)
     ELSE JwtResult("ok", p.sub)

\* validateJWT(token, secret, { clockTolerance }); "Threw" is the DOMException
\* of atob on a signature segment that is no base64 text
validateJWT(b, t) ==
  LET p == b.payload
      tol == b.clockTolerance
  IN IF b.parts # 3 THEN JwtResult("Malformed", SubAbsent)
     ELSE IF b.header = "garbage" \/ p.tag # "claims" THEN JwtResult("Malformed", SubAbsent)
     ELSE IF b.header # "HS256" THEN JwtResult("Malformed", SubAbsent)
     ELSE IF ~b.sig.b64 THEN JwtResult("Threw", SubAbsent)
     ELSE IF ~SignatureValid(b) THEN JwtResult("InvalidSignature", SubAbsent)
     ELSE IF p.exp # Absent /\ p.exp < t - tol THEN JwtResult("Expired", SubAbsent)
     ELSE IF p.nbf # Absent /\ p.nbf > t + tol THEN JwtResult("Malformed", SubAbsent)
     ELSE IF p.iat # Absent /\ p.iat > t + tol THEN JwtResult("Malformed", SubAbsent)
     ELSE IF p.sub = SubAbsent \/ p.sub = "" THEN JwtResult("Malformed", SubAbsent)
     ELSE JwtResult("ok", p.sub)

\* the async validateRequest(authHeader, secret, options) around validateJWT:
\* a JWTError is rethrown, any other error becomes null
validateRequestAsync(b, t) ==
  IF ~b.prefix THEN JwtResult("Malformed", SubAbsent)
  ELSE IF validateJWT(b, t).kind = "Threw" THEN JwtResult("null", SubAbsent)
  ELSE validateJWT(b, t)

NowSec == now \div MsPerSecond

\* the tokens presented
Headers == {"HS256", "RS256", "garbage"}
ExpValues == {Absent} \cup (0..(MaxNow + 1))
Payloads ==
  {GarbagePayload} \cup
  {Claims(e, n, i, sb) : e \in ExpValues, n \in {Absent, 2}, i \in {Absent, 2},
                         sb \in {SubAbsent, "", "user1"}}
Signatures ==
  {Signature(JWT_SECRET, TRUE, TRUE),
   Signature("wrong", TRUE, TRUE),
   Signature(JWT_SECRET, FALSE, TRUE),
   Signature(JWT_SECRET, TRUE, FALSE)}
Bearers ==
  {Bearer(pre, n, h, p, sg, tol) :
     pre \in BOOLEAN, n \in {2, 3}, h \in Headers, p \in Payloads,
     sg \in Signatures,
     tol \in {0, 1}}
JwtWorkers == {"w1"}

ValidateRequestCall(w) ==
  /\ pc[w] = "idle"
  /\ bearer.tag = "bearer"
  /\ LET r == validateRequest(bearer, NowSec) IN
       res' = [res EXCEPT ![w] = Result("validateRequest", r.sub, r.kind, NowSec)]
  /\ UNCHANGED <<now, pc, calls, bearer>>
  /\ UNCHANGED notJwt

ValidateJWTCall(w) ==
  /\ pc[w] = "idle"
  /\ bearer.tag = "bearer"
  /\ LET r == validateRequestAsync(bearer, NowSec) IN
       res' = [res EXCEPT ![w] = Result("validateJWT", r.sub, r.kind, NowSec)]
  /\ UNCHANGED <<now, pc, calls, bearer>>
  /\ UNCHANGED notJwt

InitJwt ==
  /\ kv = [k \in TokenKeys |-> NoEntry]
  /\ now = 0
  /\ pc = [w \in Workers |-> "idle"]
  /\ loc = [w \in Workers |-> NoLoc]
  /\ res = [w \in Workers |-> NoRes]
  /\ hist = [w \in Workers |-> NoHist]
  /\ calls = 0
  /\ oauthState = [t \in StateTokens |-> NoEntry]
  /\ rateLimits = [k \in RateKeys |-> NoEntry]
  /\ nextUuid = 1
  /\ issued = [t \in StateTokens |-> NotIssued]
  /\ meta = [k \in TokenKeys |-> 0]
  /\ lock = [k \in TokenKeys |-> "free"]
  /\ bearer \in Bearers
  /\ made = NoneMade
  /\ stored = NoneStored

NextJwt ==
  \/ \E w \in JwtWorkers : ValidateRequestCall(w)
  \/ \E w \in JwtWorkers : ValidateJWTCall(w)
  \/ Tick

SpecJwt == InitJwt /\ [][NextJwt]_vars

Validated(w) == res[w].op \in {"validateRequest", "validateJWT"}

\* ----------------------------------------------------------------- createJWT
MIN_SECRET_LENGTH == 32
MAX_EXPIRES_IN == 86400
OtherSecret == "wrong"
Secrets == {JWT_SECRET, OtherSecret, "short", ""}
\* secret.length of the secrets used
SecretLength(secret) ==
  IF secret = "" THEN 0
  ELSE IF secret = "short" THEN 5
  ELSE MIN_SECRET_LENGTH + 8

NoJwt == [tag |-> "threw"]
Jwt(header, payload, sig) ==
  [tag |-> "jwt", header |-> header, payload |-> payload, sig |-> sig]

createJWT_AnyExpiry(userId, secret, expiresInSeconds, t) ==
  IF secret = "" \/ SecretLength(secret) < MIN_SECRET_LENGTH THEN NoJwt
  ELSE Jwt("HS256", Claims(t + expiresInSeconds, Absent, t, userId),
           Signature(secret, TRUE, TRUE))

\* createJWT(userId, secret, expiresInSeconds) at time t (seconds)
createJWT(userId, secret, expiresInSeconds, t) ==
  IF secret = "" \/ SecretLength(secret) < MIN_SECRET_LENGTH THEN NoJwt
  ELSE IF expiresInSeconds <= 0 \/ expiresInSeconds > MAX_EXPIRES_IN THEN NoJwt
  ELSE Jwt("HS256", Claims(t + expiresInSeconds, Absent, t, userId),
           Signature(secret, TRUE, TRUE))

Subjects == {"user1", ""}
ExpiresInSeconds == {0 - 1, 0, 1, 2, MAX_EXPIRES_IN, MAX_EXPIRES_IN + 1}
Minters == {"w2"}
MintInfo(secret, ttl, t) == [secret |-> secret, ttl |-> ttl, t |-> t]

\* a validator that has not validated anything yet
NotValidated == Result("none", "none", "none", 0)

\* createJWT is called; a token it returns is then presented as
\* `Bearer <token>` with the default options (no clockTolerance)
MintCall(w, userId, secret, ttl) ==
  /\ pc[w] = "idle"
  /\ LET token == createJWT(userId, secret, ttl, NowSec) IN
       IF token.tag = "jwt"
       THEN /\ bearer' = Bearer(TRUE, 3, token.header, token.payload, token.sig, 0)
            /\ res' = [res EXCEPT ![w] =
                         Result("mint", userId, "token", MintInfo(secret, ttl, NowSec))]
       ELSE /\ bearer' = bearer
            /\ res' = [res EXCEPT ![w] =
                         Result("mint", userId, "threw", MintInfo(secret, ttl, NowSec))]
  /\ UNCHANGED <<now, pc, calls>>
  /\ UNCHANGED notJwt

InitMint ==
  /\ kv = [k \in TokenKeys |-> NoEntry]
  /\ now = 0
  /\ pc = [w \in Workers |-> "idle"]
  /\ loc = [w \in Workers |-> NoLoc]
  /\ res = [w \in Workers |-> IF w \in JwtWorkers THEN NotValidated ELSE NoRes]
  /\ hist = [w \in Workers |-> NoHist]
  /\ calls = 0
  /\ oauthState = [t \in StateTokens |-> NoEntry]
  /\ rateLimits = [k \in RateKeys |-> NoEntry]
  /\ nextUuid = 1
  /\ issued = [t \in StateTokens |-> NotIssued]
  /\ meta = [k \in TokenKeys |-> 0]
  /\ lock = [k \in TokenKeys |-> "free"]
  /\ bearer = NoBearer
  /\ made = NoneMade
  /\ stored = NoneStored

NextMint ==
  \/ \E w \in Minters, userId \in Subjects, secret \in Secrets,
         ttl \in ExpiresInSeconds :
       MintCall(w, userId, secret, ttl)
  \/ \E w \in JwtWorkers : ValidateRequestCall(w)
  \/ \E w \in JwtWorkers : ValidateJWTCall(w)
  \/ Tick

SpecMint == InitMint /\ [][NextMint]_vars

\* ------------------------------------------------------ handleOAuthCallback
\* The handler calls consumeState first (ConsumeGet, ConsumeDelete); a worker
\* that is idle with a consumeState result is a handler at the test
\* `if (!code || !userId)`.  The authorization requests before it are the
\* createState calls of handleOAuthAuthorize.
SESSION_TTL == 3600
Codes == {"none", "c1"}
CbLoc(userId, state, tokens) == [userId |-> userId, state |-> state, tokens |-> tokens]
CbResult(sub, status, state) == Result("callback", sub, status, state)

\* variant of CbCheck: only the code is tested
CbCheck_IgnoresState(w, code) ==
  /\ pc[w] = "idle"
  /\ res[w].op = "consume"
  /\ IF code = "none"
     THEN Finish(w, CbResult("none", "400", res[w].val))
     ELSE /\ pc' = [pc EXCEPT ![w] = "exchange"]
          /\ res' = [res EXCEPT ![w] = NoCsrfRes]
          /\ loc' = [loc EXCEPT ![w] = CbLoc(res[w].uid, res[w].val, NoTokens)]
  /\ UNCHANGED <<now, calls, oauthState, rateLimits, nextUuid, issued>>
  /\ UNCHANGED notCsrf

\* if (!code || !userId) return 400; else go on to exchangeCodeForTokens
CbCheck(w, code) ==
  /\ pc[w] = "idle"
  /\ res[w].op = "consume"
  /\ IF code = "none" \/ res[w].kind = "null"
     THEN Finish(w, CbResult("none", "400", res[w].val))
     ELSE /\ pc' = [pc EXCEPT ![w] = "exchange"]
          /\ res' = [res EXCEPT ![w] = NoCsrfRes]
          /\ loc' = [loc EXCEPT ![w] = CbLoc(res[w].uid, res[w].val, NoTokens)]
  /\ UNCHANGED <<now, calls, oauthState, rateLimits, nextUuid, issued>>
  /\ UNCHANGED notCsrf

\* oauth.exchangeCodeForTokens(code) resolves
CbExchangeOk(w, rt, ein) ==
  /\ pc[w] = "exchange"
  /\ pc' = [pc EXCEPT ![w] = "cbStore"]
  /\ loc' = [loc EXCEPT ![w].tokens = Tokens("a0", rt, now + ein * MsPerSecond)]
  /\ UNCHANGED <<now, res, calls, oauthState, rateLimits, nextUuid, issued>>
  /\ UNCHANGED notCsrf

\* exchangeCodeForTokens rejects: the catch block answers 500
CbExchangeFail(w) ==
  /\ pc[w] = "exchange"
  /\ Finish(w, CbResult("none", "500", loc[w].state))
  /\ UNCHANGED <<now, calls, oauthState, rateLimits, nextUuid, issued>>
  /\ UNCHANGED notCsrf

\* storage.storeTokens(userId, ...) resolves, then createJWT(userId,
\* env.JWT_SECRET, 3600): 200 with the token, or 500 when createJWT throws
CbStoreOk(w, iv, secret) ==
  /\ pc[w] = "cbStore"
  /\ kv' = storeTokens(kv, loc[w].userId, loc[w].tokens, iv)
  /\ LET jwt == createJWT(loc[w].userId, secret, SESSION_TTL, now \div MsPerSecond) IN
       IF jwt.tag = "jwt"
       THEN Finish(w, CbResult(jwt.payload.sub, "200", loc[w].state))
       ELSE Finish(w, CbResult("none", "500", loc[w].state))
  /\ UNCHANGED <<now, calls, oauthState, rateLimits, nextUuid, issued>>
  /\ UNCHANGED <<hist, meta, lock, bearer, made, stored>>

\* storeTokens rejects: the catch block answers 500
CbStoreFail(w) ==
  /\ pc[w] = "cbStore"
  /\ Finish(w, CbResult("none", "500", loc[w].state))
  /\ UNCHANGED <<now, calls, oauthState, rateLimits, nextUuid, issued>>
  /\ UNCHANGED notCsrf

InitCb ==
  /\ kv = [k \in {TokenKey(u) : u \in Owners} |-> NoEntry]
  /\ now = 0
  /\ pc = [w \in Workers |-> "idle"]
  /\ loc = [w \in Workers |-> NoLoc]
  /\ res = [w \in Workers |-> NoCsrfRes]
  /\ hist = [w \in Workers |-> NoHist]
  /\ calls = 0
  /\ oauthState = [t \in StateTokens |-> NoEntry]
  /\ rateLimits = [k \in RateKeys |-> NoEntry]
  /\ nextUuid = 1
  /\ issued = [t \in StateTokens |-> NotIssued]
  /\ meta = [k \in TokenKeys |-> 0]
  /\ lock = [k \in TokenKeys |-> "free"]
  /\ bearer = NoBearer
  /\ made = NoneMade
  /\ stored = NoneStored

NextCb ==
  \/ \E w \in OneWorker, u \in Owners, ip \in ClientIps : CreateRead(w, u, ip)
  \/ \E w \in Workers : CreatePutCount(w)
  \/ \E w \in Workers : CreatePutState(w)
  \/ \E w \in Workers, st \in StateTokens \cup {NullState, UnknownState} :
       ConsumeGet(w, st)
  \/ \E w \in Workers : ConsumeDelete(w)
  \/ \E w \in Workers, code \in Codes : CbCheck(w, code)
  \/ \E w \in Workers : CbExchangeOk(w, "r1", 1)
  \/ \E w \in Workers : CbExchangeFail(w)
  \/ \E w \in Workers, secret \in {JWT_SECRET, "short"} : CbStoreOk(w, RandomIv, secret)
  \/ \E w \in Workers : CbStoreFail(w)
  \/ TickCsrf

SpecCb == InitCb /\ [][NextCb]_vars

\* the step is a validation by w of the token the last createJWT call of m
\* returned, minted with the verifier's secret
ValidatesMinted(w, m) ==
  /\ res[m].op = "mint" /\ res[m].kind = "token"
  /\ res[m].val.secret = JWT_SECRET
  /\ bearer' = bearer
  /\ res'[w].op \in {"validateRequest", "validateJWT"}
  /\ res'[w] # res[w]

\* C21: verify applied to a token minted for subject s with the same secret
\* returns s at every time from iat up to, not including, exp, and fails
\* with Expired once the time has passed exp.
C21_MintVerifyRoundTrip ==
  [][\A w \in JwtWorkers, m \in Minters :
       ValidatesMinted(w, m)
       => LET iat == res[m].val.t
              exp == res[m].val.t + res[m].val.ttl
              t == res'[w].val
          IN /\ (iat <= t /\ t < exp)
                  => (res'[w].kind = "ok" /\ res'[w].uid = res[m].uid)
             /\ t > exp => res'[w].kind = "Expired"]_vars

\* C6: a three-part token whose signature segment does not match the HMAC of
\* its first two segments is rejected with InvalidSignature, whatever its
\* header and claim set contain.
C6_SignatureFirst ==
  \A w \in JwtWorkers :
    (Validated(w) /\ bearer.prefix /\ bearer.parts = 3 /\ ~SignatureValid(bearer))
    => res[w].kind = "InvalidSignature"

\* C7: a validly signed token is accepted only if it has an exp claim with
\* now < exp + tolerance; with exp + tolerance <= now, or with no exp claim,
\* it fails with Expired.
C7_ExpRequiredAndInFuture ==
  \A w \in JwtWorkers :
    ( /\ Validated(w) /\ bearer.prefix /\ bearer.parts = 3 /\ SignatureValid(bearer)
      /\ bearer.header = "HS256" /\ bearer.payload.tag = "claims" )
    => LET e == bearer.payload.exp
           t == res[w].val
       IN /\ res[w].kind = "ok" => (e # Absent /\ t < e + bearer.clockTolerance)
          /\ (e = Absent \/ e + bearer.clockTolerance <= t) => res[w].kind = "Expired"

\* C1: of all consumeState calls on one issued state token, whatever their
\* interleaving, at most one returns the owner id.
C1_AtMostOneConsume ==
  \A st \in StateTokens :
    Cardinality({w \in Workers :
                   /\ pc[w] = "idle"
                   /\ res[w].op = "consume" /\ res[w].kind = "owner"
                   /\ res[w].val = st}) <= 1


\* C4: getValidTokens hands a refreshed credential to its caller only in the
\* step in which storeTokens for that credential succeeds, the store then
\* holding it; when storeTokens fails the call ends with the refresh-failure
\* error, returns no credential and the store is as before; while the refresh
\* or the store is pending nothing has been returned.
C4_PersistBeforeReturn ==
  [][\A w \in Workers :
       /\ pc'[w] \in {"refresh", "store"} => res'[w] = NoRes
       /\ (pc[w] = "store" /\ pc'[w] = "idle") =>
            \/ /\ hist'[w].put = "ok"
               /\ res'[w] = Result("gvt", loc[w].uid, "ok", loc[w].updated)
               /\ StoredTokens(kv', loc[w].uid) = loc[w].updated
            \/ /\ hist'[w].put = "failed"
               /\ res'[w] = Result("gvt", loc[w].uid, "RefreshFailed", NoTokens)
               /\ kv' = kv]_vars

\* C4 witness: one call returned its refreshed credential after a successful
\* store while another call's store failed
C4_Witness ==
  \E w, v \in Workers :
    /\ pc[w] = "idle" /\ res[w].kind = "ok" /\ hist[w].put = "ok"
    /\ pc[v] = "idle" /\ res[v].kind = "RefreshFailed" /\ hist[v].put = "failed"

\* C5: a getValidTokens call whose refresh call fails ends with RefreshFailed
\* and none of its steps writes the store; a getValidTokens call that starts
\* later on the still unchanged entry goes to the refresh call again, with
\* the same refresh token.
C5_RefreshFailureKeepsRecord ==
  [][\A w \in Workers :
       /\ (pc[w] = "idle" /\ pc'[w] = "refresh") => kv' = kv
       /\ (pc[w] = "refresh" /\ pc'[w] = "idle") =>
            /\ res'[w] = Result("gvt", loc[w].uid, "RefreshFailed", NoTokens)
            /\ hist'[w].refreshArg = loc[w].tokens.refresh_token
            /\ kv' = kv
       /\ \A v \in Workers, u \in Identities :
            ( /\ FailedRefreshOf(w, u)
              /\ pc[v] = "idle" /\ calls' # calls /\ kv' = kv
              /\ \/ pc'[v] = "refresh" /\ loc'[v].uid = u
                 \/ res'[v] # res[v] /\ res'[v].op = "gvt" /\ res'[v].uid = u )
            => /\ pc'[v] = "refresh"
               /\ hist'[v].retry
               /\ loc'[v].tokens.refresh_token = hist[w].refreshArg]_vars

\* C5 witness: a refresh has failed, the entry is untouched, and a later call
\* on it is at the refresh call again
C5_Witness ==
  \E w, v \in Workers :
    /\ FailedRefreshOf(w, "u1")
    /\ pc[v] = "refresh" /\ hist[v].retry
    /\ loc[v].tokens.refresh_token = hist[w].refreshArg

\* C8: TokenStorage.getTokens returns absent (null) only when no entry is
\* stored under the identity's key; an entry that does not decrypt or parse
\* makes the call raise an error.
C8_AbsentOnlyWhenNoEntry ==
  \A w \in Workers :
    (pc[w] = "idle" /\ res[w].op = "get" /\ res[w].kind = "null")
      => hist[w].seen = "none"

\* C9: the record a successful refresh persists and returns carries the
\* provider's new access token, expires_at = now + expires_in * 1000, the old
\* token_type and scope, and the provider's rotated refresh token when the
\* response has one, else the old refresh token.
C9_RefreshedRecord ==
  [][\A w \in Workers :
       (pc[w] = "store" /\ pc'[w] = "idle" /\ res'[w].kind = "ok") =>
         LET t == loc[w].tokens
             n == loc[w].newTokens
             r == res'[w].val
         IN /\ r.access_token = n.access_token
            /\ r.expires_at = loc[w].now + n.expires_in * 1000
            /\ r.token_type = t.token_type
            /\ r.scope = t.scope
            /\ r.refresh_token =
                 IF n.refresh_token # "none" THEN n.refresh_token ELSE t.refresh_token
            /\ StoredTokens(kv', loc[w].uid) = r]_vars

\* C10: when the provider notification of revokeTokens fails, the call goes
\* on to deleteTokens, and the step that ends the call leaves no entry under
\* the identity's key.
C10_DeleteAfterFailedNotify ==
  [][\A w \in Workers :
       /\ (pc[w] = "notify" /\ pc'[w] # "notify") => pc'[w] = "delete"
       /\ (pc[w] \in {"notify", "delete"} /\ pc'[w] = "idle") =>
            kv'[TokenKey(loc[w].uid)] = NoEntry]_vars

\* C10 witness: a revokeTokens call has ended with the notification error
\* and the record is gone
C10_Witness ==
  \E w \in Workers :
    /\ pc[w] = "idle" /\ res[w].op = "revoke" /\ res[w].kind = "throw"
    /\ hist[w].notify = "failed"
    /\ kv[TokenKey(res[w].uid)] = NoEntry


ValidatedUnexpired(w) ==
  /\ Validated(w) /\ bearer.prefix /\ bearer.parts = 3 /\ SignatureValid(bearer)
  /\ bearer.header = "HS256" /\ bearer.payload.tag = "claims"
  /\ bearer.payload.exp # Absent
  /\ res[w].val < bearer.payload.exp + bearer.clockTolerance

\* nbf or iat lies beyond time t plus the tolerance
InFuture(claim, t) == claim # Absent /\ claim > t + bearer.clockTolerance

\* C22: a validly signed, unexpired token whose nbf or iat is later than
\* now + tolerance is rejected with NotYetValid; with nbf and iat at or before
\* now + tolerance it is not rejected with NotYetValid.
C22_NotYetValid ==
  \A w \in JwtWorkers :
    ValidatedUnexpired(w)
    => (res[w].kind = "NotYetValid"
          <=> (\/ InFuture(bearer.payload.nbf, res[w].val)
               \/ InFuture(bearer.payload.iat, res[w].val)))


\* a validly signed HS256 token with a decodable claim set was validated by w
ValidatedSigned(w) ==
  /\ Validated(w) /\ bearer.prefix /\ bearer.parts = 3 /\ SignatureValid(bearer)
  /\ bearer.header = "HS256" /\ bearer.payload.tag = "claims"

\* C28: the checks are applied in the order three-part split, signature,
\* claim-set decode, exp, nbf, iat, sub, and the first failing one is
\* reported: a validly signed expired token without sub fails with Expired,
\* a validly signed unexpired token with a future nbf and no sub fails with
\* NotYetValid, and a token that has not exactly three segments fails with
\* Malformed.
C28_CheckOrder ==
  \A w \in JwtWorkers :
    /\ ( /\ ValidatedSigned(w)
         /\ bearer.payload.exp # Absent
         /\ bearer.payload.exp + bearer.clockTolerance < res[w].val
         /\ bearer.payload.sub = SubAbsent )
       => res[w].kind = "Expired"
    /\ ( /\ ValidatedUnexpired(w)
         /\ InFuture(bearer.payload.nbf, res[w].val)
         /\ bearer.payload.sub = SubAbsent )
       => res[w].kind = "NotYetValid"
    /\ (Validated(w) /\ bearer.prefix /\ bearer.parts # 3)
       => res[w].kind = "Malformed"


\* C23: decrypt reports every failure (wrong key, tampered ciphertext,
\* malformed record) with the same DecryptionFailed error, whether or not a
\* previous key is configured.
C23_SingleFailureMode ==
  \A w \in Workers :
    (res[w].op = "decryptOnly" /\ res[w].kind = "DecryptionFailed")
    => res[w].val.error = FailedWithAnyKey


\* C25: for every plaintext p, the empty string included, decrypt of the
\* record encrypt(p) produced under the current key returns p.
C25_RoundTrip ==
  \A w, v \in Workers :
    ( /\ res[w].op = "encrypt" /\ res[v].op = "decryptOnly"
      /\ hist[v].entry = hist[w].entry )
    => (res[v].kind = "ok" /\ res[v].val.plain = res[w].val.plain)


C27_FreshNonce ==
  \A w \in Workers :
    res[w].op = "encrypt"
    => /\ \A v \in Workers \ {w} :
            res[v].op = "encrypt" => hist[v].entry.iv # hist[w].entry.iv
       /\ decryptKeys(hist[w].entry, KeyNew, NoKey) =
            [status |-> "ok", plain |-> res[w].val.plain]


\* C29: a checkLimit call that denies writes nothing to the store: count and
\* expiry of every entry are the same after the call as before.
C29_DenyWritesNothing ==
  [][\A w \in Workers :
       ( /\ calls' = calls + 1
         /\ res'[w].op = "allow" /\ res'[w].kind = "false"
         /\ res'[w].val.n = calls' )
       => rateLimits' = rateLimits]_vars

\* a call of the counting limiter found the entry at the limit and denied,
\* and the entry is as the call found it
C29_Witness ==
  \E w \in Workers, u \in Identities :
    /\ pc[w] = "idle" /\ res[w].op = "allow" /\ res[w].kind = "false"
    /\ hist[w].entry = Stored("count", MAX_REQUESTS)
    /\ rateLimits[LimitKey("count", u)] = hist[w].entry


\* C30: a createState or consumeState call that returns null changes no
\* store: a refused createState writes neither the counter nor a state
\* entry, a consumeState that returns null deletes nothing, and for a null or
\* empty state it does not read the store either.
C30_NullChangesNothing ==
  [][\A w \in Workers :
       ( /\ calls' = calls + 1
         /\ pc[w] = "idle" /\ pc'[w] = "idle"
         /\ res'[w].op \in {"create", "consume"} /\ res'[w].kind = "null" )
       => /\ rateLimits' = rateLimits
          /\ oauthState' = oauthState
          /\ (res'[w].op = "consume" /\ res'[w].val = NullState
                 /\ hist'[w] # hist[w])
               => hist'[w].seen = "none"]_vars

\* a createState call was refused and the counter is as it was, and a
\* consumeState call returned null for a state token that is not stored
C30_Witness ==
  \E w, v \in Workers :
    /\ pc[w] = "idle" /\ res[w].op = "create" /\ res[w].kind = "null"
    /\ \E ip \in ClientIps : rateLimits[RateKey(ip)] = Issued(STATE_LIMIT + 1)
    /\ pc[v] = "idle" /\ res[v].op = "consume" /\ res[v].kind = "null"
    /\ hist[v].seen = "get"


\* C31: in a sequential run, an identity that never makes more than
\* MAX_REQUESTS requests within any span of WINDOW_SIZE seconds is never
\* denied: when a call is denied, some span of WINDOW_SIZE seconds holds more
\* than MAX_REQUESTS of the requests made so far.
C31_FixedWindow ==
  \A w \in OneWorker :
    (pc[w] = "idle" /\ res[w].op = "allow" /\ res[w].kind = "false")
    => \E t \in RlTimes : MadeInSpan(made, t) > MAX_REQUESTS


\* C32: with at most N checkLimit calls of one identity in flight at the same
\* time, the number of calls that return true for it within one window never
\* exceeds MAX_REQUESTS + (N - 1).
C32_RaceBounded ==
  made[0] <= MAX_REQUESTS + (Cardinality(Workers) - 1)


\* C33: every revokeTokens call executes deleteTokens, also when no record is
\* stored, when the record has no refresh token and when the stored record
\* cannot be decrypted: the step that ends the call leaves no entry under the
\* identity's key.
C33_RevokeAlwaysDeletes ==
  [][\A w \in Workers :
       /\ (pc[w] \in {"notify", "delete"} /\ pc'[w] = "idle")
            => kv'[TokenKey(loc[w].uid)] = NoEntry
       /\ ( /\ calls' # calls /\ pc[w] = "idle" /\ pc'[w] = "idle"
            /\ res'[w].op = "revoke"
            /\ (res[w].op # "revoke" \/ hist'[w] # hist[w]) )
            => kv'[TokenKey(res'[w].uid)] = NoEntry]_vars


\* C34: once revokeTokens has completed for an identity, no credential record
\* of that identity is in the store until a new authorization exchange stores
\* one: a getValidTokens refresh that was in flight during the revoke does not
\* put a record back when it finishes.
C34_RevokedStaysEmpty ==
  [][\A w \in Workers, v \in Workers :
       ( /\ pc[w] = "idle" /\ res[w].op = "revoke"
         /\ kv[TokenKey(res[w].uid)] = NoEntry
         /\ pc[v] = "store" /\ pc'[v] = "idle" /\ loc[v].uid = res[w].uid )
       => kv'[TokenKey(res[w].uid)] = NoEntry]_vars


\* C35: TokenStorage.getTokens of an identity whose record was stored under
\* the previous key returns the credential of that record (the deployment has
\* the previous key configured).
C35_PreviousKeyRecordRead ==
  [][\A w \in Workers :
       ( /\ calls' # calls /\ pc[w] = "idle" /\ pc'[w] = "idle"
         /\ res'[w].op = "get"
         /\ (res[w].op # "get" \/ hist'[w] # hist[w] \/ res'[w] # res[w])
         /\ kv[TokenKey(res'[w].uid)].tag = "enc"
         /\ decryptWithKey(kv[TokenKey(res'[w].uid)], KeyOld).ok )
       => /\ res'[w].kind = "tokens"
          /\ res'[w].val =
               JsonParse(decryptWithKey(kv[TokenKey(res'[w].uid)], KeyOld).plain).val]_vars


C37_ReleaseOnlyByHolder ==
  [][\A w \in Workers, v \in Workers :
       ( /\ v # w
         /\ pc[w] = "release" /\ pc'[w] = "idle"
         /\ lock[TokenKey(loc[w].uid)] = v )
       => lock'[TokenKey(loc[w].uid)] = v]_vars


\* C38: performReEncryptionWithConditionalWrite writes nothing when the stored
\* version metadata already equals the target version (it returns at the
\* read), reads at most maxRetries = 3 times in one call, and every call of
\* it comes to an end.
C38_ConditionalWrite ==
  /\ [][\A w \in Workers :
          ( /\ pc[w] = "cwRead" /\ pc'[w] # "cwRead"
            /\ kv[TokenKey(loc[w].uid)].tag # "none"
            /\ meta[TokenKey(loc[w].uid)] = CURRENT_VERSION )
          => (pc'[w] = "idle" /\ kv' = kv /\ meta' = meta)]_vars
  /\ [](\A w \in Workers : hist[w].attempts <= maxRetries)
  /\ \A w \in Workers : (pc[w] \in {"cwRead", "cwPut"}) ~> (pc[w] = "idle")

\* a call found the record already at the target version and returned after
\* one read without writing
C38_Witness ==
  \E w \in Workers :
    /\ pc[w] = "idle" /\ res[w].op = "decrypt" /\ res[w].kind = "ok"
    /\ hist[w].seen = "old" /\ hist[w].attempts = 1 /\ hist[w].put = "none"
    /\ meta[TokenKey(res[w].uid)] = CURRENT_VERSION


\* C39 as stated: getTokens(identity) returns the record of the most recent
\* storeTokens(identity, r) that no deleteTokens(identity) followed, and null
\* when there is none, whatever ran on other identities; deleteTokens on an
\* absent identity changes nothing that a read returns.
C39_LastWriteWins ==
  [][\A w \in OneWorker :
       calls' # calls =>
         /\ res'[w].op = "get" =>
              IF stored[res'[w].uid].tag = "stored"
              THEN res'[w].kind = "tokens" /\ res'[w].val = stored[res'[w].uid].rec
              ELSE res'[w].kind = "null"
         /\ (res'[w].op = "delete" /\ stored[res'[w].uid].tag # "stored") =>
              \A u \in Owners : ReadTokens(kv', u, now) = ReadTokens(kv, u, now)]_vars

\* C39: within the retention period (TOKEN_TTL seconds from the store)
\* getTokens(identity) returns the record of the most recent
\* storeTokens(identity, r) that no deleteTokens(identity) followed; it
\* returns null when there is none or the retention period has run out,
\* whatever ran on other identities; deleteTokens on an absent identity
\* changes nothing that a read returns.
C39_LastWriteWinsRetained ==
  [][\A w \in OneWorker :
       calls' # calls =>
         /\ res'[w].op = "get" =>
              IF /\ stored[res'[w].uid].tag = "stored"
                 /\ now < stored[res'[w].uid].at + TOKEN_TTL
              THEN res'[w].kind = "tokens" /\ res'[w].val = stored[res'[w].uid].rec
              ELSE res'[w].kind = "null"
         /\ (res'[w].op = "delete" /\ stored[res'[w].uid].tag # "stored") =>
              \A u \in Owners : ReadTokens(kv', u, now) = ReadTokens(kv, u, now)]_vars

\* a read returned an identity's record after another record was stored for
\* the other identity
C39_Witness ==
  \E w \in OneWorker, u \in Owners, v \in Owners :
    /\ u # v /\ pc[w] = "idle"
    /\ res[w].op = "get" /\ res[w].uid = u /\ res[w].kind = "tokens"
    /\ stored[v].tag = "stored" /\ stored[v].rec # res[w].val
    /\ stored[u].at < stored[v].at


====
